---- MODULE Spec2Model ----
(***************************************************************************)
(* Point-cloud kernels of pointcloud-webtools (Python backend):            *)
(*   point_cloud_smooth, voxel_downsample, generate_voxel_centers and the  *)
(*   binary stdin/stdout drivers that frame them.                          *)
(*                                                                         *)
(* Floats are modelled as exact rationals <<n, d>> (d > 0, lowest terms)   *)
(* extended with the IEEE specials NaN = <<0,0>>, +Inf = <<1,0>> and       *)
(* -Inf = <<-1,0>>.  Rounding is not modelled; every other float rule the  *)
(* code relies on (NaN comparisons, int() truncation, math.floor,          *)
(* exceptions raised by int()/floor on NaN and Inf) is.                    *)
(***************************************************************************)
EXTENDS Integers, Sequences, FiniteSets, TLC

VARIABLES
    pc,                 \* control location of the running program
    points,             \* flat list [x0,y0,z0,x1,...] handed to the kernel
    smoothing_radius,   \* point_cloud_smooth argument
    iterations,         \* point_cloud_smooth argument
    smoothed_points,    \* point_cloud_smooth: buffer written in place
    temp_points,        \* point_cloud_smooth: snapshot read during an iteration
    grid,               \* point_cloud_smooth: cell index -> list of point indices
    iter,               \* point_cloud_smooth: iterations completed so far
    cur,                \* index of the next point the running loop handles
    voxel_size,         \* voxel_downsample / generate_voxel_centers argument
    global_bounds,      \* voxel_downsample / generate_voxel_centers argument
    voxel_map,          \* voxel_downsample: key -> [sum_x, sum_y, sum_z, count],
                        \*   kept as the list of entries in insertion order
    voxel_coords,       \* generate_voxel_centers: set of (vx, vy, vz)
    result,             \* value returned (or exception raised) by the kernel
    stdin,              \* driver: the bytes standard input holds
    consumed,           \* driver: bytes read from standard input so far
    stdout,             \* driver: the items written to standard output
    exit_code           \* driver: process exit status, -1 while it runs

smoothVars == <<smoothing_radius, iterations, smoothed_points, temp_points,
                grid, iter>>
voxelVars == <<voxel_size, global_bounds, voxel_map, voxel_coords>>
driverVars == <<stdin, consumed, stdout, exit_code>>

vars == <<pc, points, cur, result, smoothVars, voxelVars, driverVars>>

----------------------------------------------------------------------------
(* Float arithmetic                                                        *)

Abs(i) == IF i < 0 THEN -i ELSE i

RECURSIVE Gcd(_, _)
Gcd(a, b) == IF b = 0 THEN a ELSE Gcd(b, a % b)

Norm(n, d) ==
    IF d = 1 THEN <<n, 1>>
    ELSE LET s == IF d < 0 THEN -1 ELSE 1
             g == Gcd(Abs(n), Abs(d))
         IN  <<(s * n) \div g, (s * d) \div g>>

Fin(i) == <<i, 1>>
NaN == <<0, 0>>
PInf == <<1, 0>>
NInf == <<-1, 0>>

IsNaN(a) == a = NaN
IsInf(a) == a = PInf \/ a = NInf
IsFinite(a) == a[2] # 0
Sign(a) == IF a[1] > 0 THEN 1 ELSE IF a[1] < 0 THEN -1 ELSE 0

FNeg(a) == <<-a[1], a[2]>>

FAdd(a, b) ==
    IF IsNaN(a) \/ IsNaN(b) THEN NaN
    ELSE IF IsInf(a) /\ IsInf(b) THEN (IF a = b THEN a ELSE NaN)
    ELSE IF IsInf(a) THEN a
    ELSE IF IsInf(b) THEN b
    ELSE IF a[2] = 1 /\ b[2] = 1 THEN <<a[1] + b[1], 1>>
    ELSE LET g == Gcd(a[2], b[2])
         IN  Norm(a[1] * (b[2] \div g) + b[1] * (a[2] \div g), a[2] * (b[2] \div g))

FSub(a, b) == FAdd(a, FNeg(b))

FMul(a, b) ==
    IF IsNaN(a) \/ IsNaN(b) THEN NaN
    ELSE IF IsInf(a) \/ IsInf(b)
         THEN (IF Sign(a) * Sign(b) = 0 THEN NaN
               ELSE <<Sign(a) * Sign(b), 0>>)
    ELSE Norm(a[1] * b[1], a[2] * b[2])

\* a / b for b # 0 (every division in the kernels is guarded by b > 0)
FDiv(a, b) ==
    IF IsNaN(a) \/ IsNaN(b) THEN NaN
    ELSE IF IsInf(a) /\ IsInf(b) THEN NaN
    ELSE IF IsInf(a) THEN <<Sign(a) * Sign(b), 0>>
    ELSE IF IsInf(b) THEN Fin(0)
    ELSE Norm(a[1] * b[2], a[2] * b[1])

FLt(a, b) ==
    IF IsNaN(a) \/ IsNaN(b) THEN FALSE
    ELSE IF IsInf(a) \/ IsInf(b)
         THEN (IF IsInf(a) /\ IsInf(b) THEN a = NInf /\ b = PInf
               ELSE a = NInf \/ b = PInf)
    ELSE a[1] * b[2] < b[1] * a[2]

FLe(a, b) ==
    IF IsNaN(a) \/ IsNaN(b) THEN FALSE
    ELSE a = b \/ FLt(a, b)

\* Python's min(a, b) / max(a, b): the first argument unless the second is
\* strictly smaller / larger
PyMin(a, b) == IF FLt(b, a) THEN b ELSE a
PyMax(a, b) == IF FLt(a, b) THEN b ELSE a

\* math.floor(a) for a finite a
Floor(a) == a[1] \div a[2]

\* int(a) for a finite a: truncation toward zero
PyInt(a) == IF a[1] >= 0 THEN a[1] \div a[2] ELSE -((-a[1]) \div a[2])

----------------------------------------------------------------------------
(* point_cloud_smooth (point_smooth_python.py)                             *)
(* The loops are folds; each fold evaluates its accumulator before the     *)
(* next step (v \in {step}), which changes no value.                       *)

NumPoints(pts) == Len(pts) \div 3
PX(pts, i) == pts[3 * i + 1]
PY(pts, i) == pts[3 * i + 2]
PZ(pts, i) == pts[3 * i + 3]

\* lines 21-26: the kernel returns [] without computing anything
SmoothReturnsEmpty(pts) ==
    Len(pts) = 0 \/ Len(pts) % 3 # 0 \/ NumPoints(pts) = 0

\* lines 28-31: ValueError on a non-positive radius or iteration count
SmoothRejects(r, K) == FLe(r, Fin(0)) \/ K <= 0

\* lines 48-54: one step of the bounding-box scan
BoundsStep(b, pts, i) ==
    [min_x |-> PyMin(b.min_x, PX(pts, i)), max_x |-> PyMax(b.max_x, PX(pts, i)),
     min_y |-> PyMin(b.min_y, PY(pts, i)), max_y |-> PyMax(b.max_y, PY(pts, i)),
     min_z |-> PyMin(b.min_z, PZ(pts, i)), max_z |-> PyMax(b.max_z, PZ(pts, i))]

RECURSIVE BoundsFrom(_, _, _)
BoundsFrom(b, pts, i) ==
    IF i >= NumPoints(pts) THEN b
    ELSE LET b2 == BoundsStep(b, pts, i)
         IN  CHOOSE r \in {BoundsFrom(v, pts, i + 1) : v \in {b2}} : TRUE

\* lines 40-54: bounding box of the kernel's input
BoundingBox(pts) ==
    BoundsFrom([min_x |-> PX(pts, 0), max_x |-> PX(pts, 0),
                min_y |-> PY(pts, 0), max_y |-> PY(pts, 0),
                min_z |-> PZ(pts, 0), max_z |-> PZ(pts, 0)], pts, 1)

\* int((v - min) * inv_cell_size), lines 57-59, 82-84 and 111-113
CellCoord(v, minv, inv) == PyInt(FMul(FSub(v, minv), inv))

\* lines 36-60: the values computed once, before the iteration loop
SmoothSetup(pts, r) ==
    LET b   == BoundingBox(pts)
        inv == FDiv(Fin(1), r)
        w   == CellCoord(b.max_x, b.min_x, inv) + 1
        h   == CellCoord(b.max_y, b.min_y, inv) + 1
        d   == CellCoord(b.max_z, b.min_z, inv) + 1
    IN  [radius_squared |-> FMul(r, r), cell_size |-> r, inv_cell_size |-> inv,
         min_x |-> b.min_x, max_x |-> b.max_x,
         min_y |-> b.min_y, max_y |-> b.max_y,
         min_z |-> b.min_z, max_z |-> b.max_z,
         grid_width |-> w, grid_height |-> h, grid_depth |-> d,
         grid_size |-> w * h * d]

\* lines 82-85 and 111-114: flat grid index of a world coordinate
GridIndex(x, y, z, c) ==
    LET gx == CellCoord(x, c.min_x, c.inv_cell_size)
        gy == CellCoord(y, c.min_y, c.inv_cell_size)
        gz == CellCoord(z, c.min_z, c.inv_cell_size)
    IN  gx + gy * c.grid_width + gz * c.grid_width * c.grid_height

\* line 63 and lines 71-72: every cell empty
EmptyGrid(c) == [k \in 0 .. c.grid_size - 1 |-> <<>>]

\* lines 75-88: append point i to its cell, when the flat index is in range
RECURSIVE PopulateFrom(_, _, _, _)
PopulateFrom(g, temp, i, c) ==
    IF i >= NumPoints(temp) THEN g
    ELSE LET k  == GridIndex(PX(temp, i), PY(temp, i), PZ(temp, i), c)
             g2 == IF 0 <= k /\ k < c.grid_size
                   THEN [g EXCEPT ![k] = Append(@, i)] ELSE g
         IN  CHOOSE r \in {PopulateFrom(v, temp, i + 1, c) : v \in {g2}} : TRUE

PopulateGrid(temp, c) == PopulateFrom(EmptyGrid(c), temp, 0, c)

\* lines 103-105: the 27 offsets in loop order
Offsets ==
    [n \in 1 .. 27 |-> <<((n - 1) \div 9) - 1, (((n - 1) \div 3) % 3) - 1,
                         ((n - 1) % 3) - 1>>]

\* lines 108-114: flat index of the cell looked up for offset o of point i
NeighborIndex(temp, i, o, c) ==
    GridIndex(FAdd(PX(temp, i), FMul(Fin(o[1]), c.cell_size)),
              FAdd(PY(temp, i), FMul(Fin(o[2]), c.cell_size)),
              FAdd(PZ(temp, i), FMul(Fin(o[3]), c.cell_size)), c)

\* lines 128-131
DistanceSquared(temp, i, j) ==
    LET dx2 == FSub(PX(temp, j), PX(temp, i))
        dy2 == FSub(PY(temp, j), PY(temp, i))
        dz2 == FSub(PZ(temp, j), PZ(temp, i))
    IN  FAdd(FAdd(FMul(dx2, dx2), FMul(dy2, dy2)), FMul(dz2, dz2))

\* line 133 with the comparison dropped: every candidate is accepted
WithinRadiusAlways(temp, i, j, c) == TRUE

\* line 133
WithinRadius(temp, i, j, c) == FLe(DistanceSquared(temp, i, j), c.radius_squared)

\* lines 119-137: scan one cell, entries n .. end, accumulating into acc
RECURSIVE ScanCell(_, _, _, _, _, _)
ScanCell(acc, cell, n, temp, i, c) ==
    IF n > Len(cell) THEN acc
    ELSE LET j  == cell[n]
             a2 == IF i # j /\ WithinRadius(temp, i, j, c)
                   THEN [sum_x |-> FAdd(acc.sum_x, PX(temp, j)),
                         sum_y |-> FAdd(acc.sum_y, PY(temp, j)),
                         sum_z |-> FAdd(acc.sum_z, PZ(temp, j)),
                         count |-> acc.count + 1,
                         seen  |-> Append(acc.seen, j)]
                   ELSE acc
         IN  CHOOSE r \in {ScanCell(v, cell, n + 1, temp, i, c) : v \in {a2}} : TRUE

\* lines 103-137: the 27 lookups of point i, offsets n .. 27
RECURSIVE ScanOffsets(_, _, _, _, _, _)
ScanOffsets(acc, n, g, temp, i, c) ==
    IF n > 27 THEN acc
    ELSE LET k  == NeighborIndex(temp, i, Offsets[n], c)
             a2 == IF 0 <= k /\ k < c.grid_size
                   THEN ScanCell(acc, g[k], 1, temp, i, c) ELSE acc
         IN  CHOOSE r \in {ScanOffsets(v, n + 1, g, temp, i, c) : v \in {a2}} : TRUE

\* lines 97-137: sums and count gathered for point i (seen: the j added, in order)
Gather(g, temp, i, c) ==
    ScanOffsets([sum_x |-> Fin(0), sum_y |-> Fin(0), sum_z |-> Fin(0),
                 count |-> 0, seen |-> <<>>], 1, g, temp, i, c)

\* lines 91-144: the buffer after point i has been processed
ProcessPoint(sm, g, temp, i, c) ==
    LET a == Gather(g, temp, i, c)
        n == Fin(a.count + 1)
    IN  IF a.count > 0
        THEN [sm EXCEPT ![3 * i + 1] = FDiv(FAdd(PX(temp, i), a.sum_x), n),
                        ![3 * i + 2] = FDiv(FAdd(PY(temp, i), a.sum_y), n),
                        ![3 * i + 3] = FDiv(FAdd(PZ(temp, i), a.sum_z), n)]
        ELSE sm

RECURSIVE ProcessFrom(_, _, _, _, _)
ProcessFrom(sm, g, temp, i, c) ==
    IF i >= NumPoints(temp) THEN sm
    ELSE LET sm2 == ProcessPoint(sm, g, temp, i, c)
         IN  CHOOSE r \in {ProcessFrom(v, g, temp, i + 1, c) : v \in {sm2}} : TRUE

\* lines 66-144: one whole iteration applied to the buffer sm
SmoothIteration(sm, c) == ProcessFrom(sm, PopulateGrid(sm, c), sm, 0, c)

RECURSIVE IterateFrom(_, _, _)
IterateFrom(sm, k, c) ==
    IF k <= 0 THEN sm
    ELSE LET sm2 == SmoothIteration(sm, c)
         IN  CHOOSE r \in {IterateFrom(v, k - 1, c) : v \in {sm2}} : TRUE

\* lines 12-146: the list the kernel returns when it does not raise
PointCloudSmooth(pts, r, K) ==
    IF SmoothReturnsEmpty(pts) THEN <<>>
    ELSE IterateFrom(pts, K, SmoothSetup(pts, r))


----------------------------------------------------------------------------
(* The cell arithmetic of point_cloud_smooth in Python floats (IEEE-754     *)
(* binary64, round to nearest, ties to even), for integer-valued            *)
(* coordinates and radii below 2^15: there x - min_x and x + dx * cell_size *)
(* are exact, and only 1.0 / cell_size and the product with it are rounded. *)
(* Mantissas are naturals held as little-endian lists of 15-bit limbs,      *)
(* without leading zero limbs.                                              *)

LimbBase == 2 ^ 15

\* bits of a binary64 significand
MantissaBits == 53

RECURSIVE BitLen(_)
BitLen(k) == IF k = 0 THEN 0 ELSE 1 + BitLen(k \div 2)

RECURSIVE BigTrim(_)
BigTrim(n) ==
    IF n = <<>> THEN n
    ELSE IF n[Len(n)] = 0 THEN BigTrim(SubSeq(n, 1, Len(n) - 1))
    ELSE n

BigBitLen(n) ==
    IF n = <<>> THEN 0 ELSE 15 * (Len(n) - 1) + BitLen(n[Len(n)])

\* 2^e
BigPow2(e) ==
    [i \in 1 .. (e \div 15) + 1 |-> IF i = (e \div 15) + 1 THEN 2 ^ (e % 15) ELSE 0]

\* n * a for 0 <= a <= 2^15
RECURSIVE BigMulFrom(_, _, _, _)
BigMulFrom(n, a, i, carry) ==
    IF i > Len(n) THEN (IF carry = 0 THEN <<>> ELSE <<carry>>)
    ELSE LET t == n[i] * a + carry
         IN  <<t % LimbBase>> \o BigMulFrom(n, a, i + 1, t \div LimbBase)

BigMulSmall(n, a) == BigTrim(BigMulFrom(n, a, 1, 0))

\* quotient and remainder of n by d, 1 <= d <= 2^15
RECURSIVE BigDivFrom(_, _, _, _)
BigDivFrom(n, d, i, rem) ==
    IF i = 0 THEN [q |-> <<>>, r |-> rem]
    ELSE LET t    == rem * LimbBase + n[i]
             rest == BigDivFrom(n, d, i - 1, t % d)
         IN  [q |-> Append(rest.q, t \div d), r |-> rest.r]

BigDivSmall(n, d) ==
    LET x == BigDivFrom(n, d, Len(n), 0) IN [q |-> BigTrim(x.q), r |-> x.r]

\* n + 1
RECURSIVE BigIncFrom(_, _)
BigIncFrom(n, i) ==
    IF i > Len(n) THEN Append(n, 1)
    ELSE IF n[i] + 1 < LimbBase THEN [n EXCEPT ![i] = @ + 1]
    ELSE BigIncFrom([n EXCEPT ![i] = 0], i + 1)

BigInc(n) == BigIncFrom(n, 1)

BigIsOdd(n) == n # <<>> /\ n[1] % 2 = 1

\* n / d rounded to the nearest natural, ties to even
BigRoundDiv(n, d) ==
    LET x == BigDivSmall(n, d)
    IN  IF 2 * x.r > d \/ (2 * x.r = d /\ BigIsOdd(x.q)) THEN BigInc(x.q)
        ELSE x.q

\* floor(n / 2^s)
BigShiftRight(n, s) ==
    IF s \div 15 >= Len(n) THEN <<>>
    ELSE BigDivSmall(SubSeq(n, (s \div 15) + 1, Len(n)), 2 ^ (s % 15)).q

\* a natural below 2^30 as an integer
BigToInt(n) ==
    IF n = <<>> THEN 0
    ELSE IF Len(n) = 1 THEN n[1]
    ELSE n[1] + LimbBase * n[2]

\* the float mant * 2^exp nearest to n * 2^e (n of at most 68 bits)
Round64(n, e) ==
    LET t == BigBitLen(n) - MantissaBits
    IN  IF t <= 0 THEN [mant |-> n, exp |-> e]
        ELSE [mant |-> BigRoundDiv(n, 2 ^ t), exp |-> e + t]

\* line 38: 1.0 / cell_size for an integer cell_size r >= 1
Recip64(r) ==
    LET e == MantissaBits - 1 + BitLen(r)
    IN  [mant |-> BigRoundDiv(BigPow2(e), r), exp |-> -e]

\* a * inv for an integer a >= 0
MulInt64(a, inv) == Round64(BigMulSmall(inv.mant, a), inv.exp)

\* int(v) for a float v >= 0 below 2^30
Trunc64(v) == BigToInt(BigShiftRight(v.mant, -v.exp))

\* int((v - minv) * inv_cell_size), lines 57-59, 82-84 and 111-113, with
\* inv_cell_size = 1.0 / r (line 38); v, minv and r are integer-valued
CellCoord64(v, minv, r) ==
    LET a == FSub(v, minv)[1]
    IN  IF a >= 0 THEN Trunc64(MulInt64(a, Recip64(r[1])))
        ELSE -Trunc64(MulInt64(-a, Recip64(r[1])))

\* lines 36-60 with the cell arithmetic in floats
SmoothSetup64(pts, r) ==
    LET b == BoundingBox(pts)
        w == CellCoord64(b.max_x, b.min_x, r) + 1
        h == CellCoord64(b.max_y, b.min_y, r) + 1
        d == CellCoord64(b.max_z, b.min_z, r) + 1
    IN  [radius_squared |-> FMul(r, r), cell_size |-> r,
         min_x |-> b.min_x, max_x |-> b.max_x,
         min_y |-> b.min_y, max_y |-> b.max_y,
         min_z |-> b.min_z, max_z |-> b.max_z,
         grid_width |-> w, grid_height |-> h, grid_depth |-> d,
         grid_size |-> w * h * d]

\* lines 82-85 and 111-114 with the cell arithmetic in floats
GridIndex64(x, y, z, c) ==
    LET gx == CellCoord64(x, c.min_x, c.cell_size)
        gy == CellCoord64(y, c.min_y, c.cell_size)
        gz == CellCoord64(z, c.min_z, c.cell_size)
    IN  gx + gy * c.grid_width + gz * c.grid_width * c.grid_height

\* lines 76-88: point i appended to its cell, when the flat index is in range
PopulatePoint64(g, temp, i, c) ==
    LET k == GridIndex64(PX(temp, i), PY(temp, i), PZ(temp, i), c)
    IN  IF 0 <= k /\ k < c.grid_size THEN [g EXCEPT ![k] = Append(@, i)] ELSE g

\* lines 108-114 with the cell arithmetic in floats
NeighborIndex64(temp, i, o, c) ==
    GridIndex64(FAdd(PX(temp, i), FMul(Fin(o[1]), c.cell_size)),
                FAdd(PY(temp, i), FMul(Fin(o[2]), c.cell_size)),
                FAdd(PZ(temp, i), FMul(Fin(o[3]), c.cell_size)), c)

\* lines 103-137 with the cell arithmetic in floats
RECURSIVE ScanOffsets64(_, _, _, _, _, _)
ScanOffsets64(acc, n, g, temp, i, c) ==
    IF n > 27 THEN acc
    ELSE LET k  == NeighborIndex64(temp, i, Offsets[n], c)
             a2 == IF 0 <= k /\ k < c.grid_size
                   THEN ScanCell(acc, g[k], 1, temp, i, c) ELSE acc
         IN  CHOOSE r \in {ScanOffsets64(v, n + 1, g, temp, i, c) : v \in {a2}} : TRUE

\* lines 97-137 with the cell arithmetic in floats
Gather64(g, temp, i, c) ==
    ScanOffsets64([sum_x |-> Fin(0), sum_y |-> Fin(0), sum_z |-> Fin(0),
                   count |-> 0, seen |-> <<>>], 1, g, temp, i, c)

\* lines 139-144 applied to the sums a
WriteMean(sm, temp, i, a) ==
    LET n == Fin(a.count + 1)
    IN  IF a.count > 0
        THEN [sm EXCEPT ![3 * i + 1] = FDiv(FAdd(PX(temp, i), a.sum_x), n),
                        ![3 * i + 2] = FDiv(FAdd(PY(temp, i), a.sum_y), n),
                        ![3 * i + 3] = FDiv(FAdd(PZ(temp, i), a.sum_z), n)]
        ELSE sm

----------------------------------------------------------------------------
(* IEEE-754 binary64 arithmetic on any normal value.  A float is            *)
(* [neg, mant, exp] with value (-1)^neg * mant * 2^exp, mant a natural of  *)
(* exactly 53 bits in little-endian limbs of 15 bits; zero has mant <<>>.  *)
(* Subnormal results and overflow do not occur for the inputs used.        *)

RECURSIVE BigAddFrom(_, _, _, _)
BigAddFrom(a, b, i, carry) ==
    IF i > Len(a) /\ i > Len(b) THEN (IF carry = 0 THEN <<>> ELSE <<carry>>)
    ELSE LET t == (IF i <= Len(a) THEN a[i] ELSE 0)
                  + (IF i <= Len(b) THEN b[i] ELSE 0) + carry
         IN  <<t % LimbBase>> \o BigAddFrom(a, b, i + 1, t \div LimbBase)

BigAdd(a, b) == BigTrim(BigAddFrom(a, b, 1, 0))

\* a - b for a >= b
RECURSIVE BigSubFrom(_, _, _, _)
BigSubFrom(a, b, i, borrow) ==
    IF i > Len(a) THEN <<>>
    ELSE LET t == a[i] - (IF i <= Len(b) THEN b[i] ELSE 0) - borrow
         IN  IF t < 0 THEN <<t + LimbBase>> \o BigSubFrom(a, b, i + 1, 1)
             ELSE <<t>> \o BigSubFrom(a, b, i + 1, 0)

BigSub(a, b) == BigTrim(BigSubFrom(a, b, 1, 0))

\* -1, 0 or 1 as a < b, a = b or a > b; limbs i down to 1 are compared
RECURSIVE BigCmpFrom(_, _, _)
BigCmpFrom(a, b, i) ==
    IF i = 0 THEN 0
    ELSE IF a[i] < b[i] THEN -1
    ELSE IF a[i] > b[i] THEN 1
    ELSE BigCmpFrom(a, b, i - 1)

BigCmp(a, b) ==
    IF Len(a) < Len(b) THEN -1
    ELSE IF Len(a) > Len(b) THEN 1
    ELSE BigCmpFrom(a, b, Len(a))

\* k limbs of zero
Zeros(k) == IF k = 0 THEN <<>> ELSE [i \in 1 .. k |-> 0]

\* n * 2^s
BigShiftLeft(n, s) ==
    IF n = <<>> THEN <<>>
    ELSE BigMulSmall(Zeros(s \div 15) \o n, 2 ^ (s % 15))

RECURSIVE BigMulLimbs(_, _, _)
BigMulLimbs(a, b, i) ==
    IF i > Len(b) THEN <<>>
    ELSE BigAdd(Zeros(i - 1) \o BigMulFrom(a, b[i], 1, 0),
                BigMulLimbs(a, b, i + 1))

BigMul(a, b) == BigTrim(BigMulLimbs(a, b, 1))

\* bit k of n, bit 0 the lowest
BigBit(n, k) ==
    IF k \div 15 >= Len(n) THEN 0
    ELSE (n[(k \div 15) + 1] \div 2 ^ (k % 15)) % 2

\* the k lowest bits of n are all zero
BigLowZero(n, k) ==
    /\ \A i \in 1 .. k \div 15 : i > Len(n) \/ n[i] = 0
    /\ k \div 15 >= Len(n) \/ n[(k \div 15) + 1] % 2 ^ (k % 15) = 0

\* q or q + 1: the quotient q of n by 2^t rounded to nearest, ties to even
BigRoundUp(n, t, q) ==
    IF BigBit(n, t - 1) = 1 /\ (~BigLowZero(n, t - 1) \/ BigIsOdd(q))
    THEN BigInc(q) ELSE q

\* n / 2^t rounded to the nearest natural, ties to even, t >= 1
BigRoundShift(n, t) == BigRoundUp(n, t, BigShiftRight(n, t))

\* a natural below 2^31 in limbs
IntToBig(k) ==
    BigTrim(<<k % LimbBase, (k \div LimbBase) % LimbBase,
              k \div (LimbBase * LimbBase)>>)

DblZero == [neg |-> FALSE, mant |-> <<>>, exp |-> 0]

\* the float of the rounded significand q, which has 53 bits or is 2^53
DblPack(neg, q, e) ==
    IF BigBitLen(q) > MantissaBits
    THEN [neg |-> neg, mant |-> BigShiftRight(q, 1), exp |-> e + 1]
    ELSE [neg |-> neg, mant |-> q, exp |-> e]

\* the float nearest to (-1)^neg * n * 2^e for n of 53 + t bits
DblRound(neg, n, e, t) ==
    IF t = 0 THEN [neg |-> neg, mant |-> n, exp |-> e]
    ELSE IF t < 0
    THEN [neg |-> neg, mant |-> BigShiftLeft(n, -t), exp |-> e + t]
    ELSE DblPack(neg, BigRoundShift(n, t), e + t)

\* the float nearest to (-1)^neg * n * 2^e
Dbl(neg, n, e) ==
    IF n = <<>> THEN DblZero
    ELSE DblRound(neg, n, e, BigBitLen(n) - MantissaBits)

\* float(k) for an integer k, |k| < 2^31
DblInt(k) == Dbl(k < 0, IntToBig(IF k < 0 THEN -k ELSE k), 0)

\* the float u units in the last place below the integer k (k >= 1)
DblBelow(k, u) ==
    Dbl(FALSE, BigSub(BigShiftLeft(IntToBig(k), MantissaBits - BitLen(k)),
                      IntToBig(u)), BitLen(k) - MantissaBits)

DblIsZero(a) == a.mant = <<>>
DblNeg(a) == IF DblIsZero(a) THEN a ELSE [a EXCEPT !.neg = ~a.neg]

\* -1, 0 or 1 as |a| < |b|, |a| = |b| or |a| > |b|
DblCmpAbs(a, b) ==
    IF DblIsZero(a) THEN (IF DblIsZero(b) THEN 0 ELSE -1)
    ELSE IF DblIsZero(b) THEN 1
    ELSE IF a.exp < b.exp THEN -1
    ELSE IF a.exp > b.exp THEN 1
    ELSE BigCmp(a.mant, b.mant)

DblCmp(a, b) ==
    IF a.neg # b.neg THEN (IF a.neg THEN -1 ELSE 1)
    ELSE IF a.neg THEN -DblCmpAbs(a, b) ELSE DblCmpAbs(a, b)

DblLt(a, b) == DblCmp(a, b) < 0
DblLe(a, b) == DblCmp(a, b) <= 0

\* (-1)^an * x + (-1)^bn * y for naturals x and y, as [neg, mant]
SignedSum(an, x, bn, y) ==
    IF an = bn THEN [neg |-> an, mant |-> BigAdd(x, y)]
    ELSE IF BigCmp(x, y) >= 0 THEN [neg |-> an, mant |-> BigSub(x, y)]
    ELSE [neg |-> bn, mant |-> BigSub(y, x)]

\* the float nearest to s.mant * 2^e with the sign of s
DblOfSigned(s, e) == Dbl(s.neg, s.mant, e)

\* a + b for non-zero a and b, e the smaller of their exponents
DblAddAt(a, b, e) ==
    DblOfSigned(SignedSum(a.neg, BigShiftLeft(a.mant, a.exp - e),
                          b.neg, BigShiftLeft(b.mant, b.exp - e)), e)

\* a + b
DblAdd(a, b) ==
    IF DblIsZero(a) THEN b
    ELSE IF DblIsZero(b) THEN a
    ELSE DblAddAt(a, b, IF a.exp < b.exp THEN a.exp ELSE b.exp)

DblSub(a, b) == DblAdd(a, DblNeg(b))

\* a * b
DblMul(a, b) ==
    IF DblIsZero(a) \/ DblIsZero(b) THEN DblZero
    ELSE Dbl(a.neg # b.neg, BigMul(a.mant, b.mant), a.exp + b.exp)

\* a / n for an integer 1 <= n <= 2^15: the quotient to 56 bits or more,
\* with one more bit that tells whether a remainder was left
DblQuotient(neg, x, e) ==
    Dbl(neg, BigMulFrom(x.q, 2, 1, IF x.r = 0 THEN 0 ELSE 1), e)

DblDivInt(a, n) ==
    IF DblIsZero(a) THEN DblZero
    ELSE DblQuotient(a.neg, BigDivSmall(BigShiftLeft(a.mant, 18), n),
                     a.exp - 19)

\* int(a), truncation toward zero, for |a| < 2^30
DblTrunc(a) ==
    IF DblIsZero(a) THEN 0
    ELSE (IF a.neg THEN -1 ELSE 1)
         * (IF a.exp >= 0 THEN BigToInt(BigShiftLeft(a.mant, a.exp))
            ELSE BigToInt(BigShiftRight(a.mant, -a.exp)))

----------------------------------------------------------------------------
(* point_cloud_smooth with every operation in binary64; the radius is an   *)
(* integer-valued float between 1 and 2^15                                 *)

DblMin(a, b) == IF DblLt(b, a) THEN b ELSE a
DblMax(a, b) == IF DblLt(a, b) THEN b ELSE a

\* lines 48-54: one step of the bounding-box scan
DblBoundsStep(b, pts, i) ==
    [min_x |-> DblMin(b.min_x, PX(pts, i)), max_x |-> DblMax(b.max_x, PX(pts, i)),
     min_y |-> DblMin(b.min_y, PY(pts, i)), max_y |-> DblMax(b.max_y, PY(pts, i)),
     min_z |-> DblMin(b.min_z, PZ(pts, i)), max_z |-> DblMax(b.max_z, PZ(pts, i))]

RECURSIVE DblBoundsFrom(_, _, _)
DblBoundsFrom(b, pts, i) ==
    IF i >= NumPoints(pts) THEN b
    ELSE LET b2 == DblBoundsStep(b, pts, i)
         IN  CHOOSE r \in {DblBoundsFrom(v, pts, i + 1) : v \in {b2}} : TRUE

\* lines 40-54
DblBoundingBox(pts) ==
    DblBoundsFrom([min_x |-> PX(pts, 0), max_x |-> PX(pts, 0),
                   min_y |-> PY(pts, 0), max_y |-> PY(pts, 0),
                   min_z |-> PZ(pts, 0), max_z |-> PZ(pts, 0)], pts, 1)

\* int((v - min) * inv_cell_size), lines 57-59, 82-84 and 111-113
DblCellCoord(v, minv, inv) == DblTrunc(DblMul(DblSub(v, minv), inv))

\* lines 57-60 and the values of lines 36-54 kept for the loops
DblGridOf(b, r, inv, w, h, d) ==
    [radius_squared |-> DblMul(r, r), cell_size |-> r,
     inv_cell_size |-> inv,
     min_x |-> b.min_x, max_x |-> b.max_x,
     min_y |-> b.min_y, max_y |-> b.max_y,
     min_z |-> b.min_z, max_z |-> b.max_z,
     grid_width |-> w, grid_height |-> h, grid_depth |-> d,
     grid_size |-> w * h * d]

\* lines 57-59
DblDims(b, r, inv) ==
    DblGridOf(b, r, inv, DblCellCoord(b.max_x, b.min_x, inv) + 1,
              DblCellCoord(b.max_y, b.min_y, inv) + 1,
              DblCellCoord(b.max_z, b.min_z, inv) + 1)

\* lines 36-60
DblSetup(pts, r) ==
    DblDims(DblBoundingBox(pts), r, DblDivInt(DblInt(1), DblTrunc(r)))

\* lines 82-85 and 111-114
DblGridIndex(x, y, z, c) ==
    DblCellCoord(x, c.min_x, c.inv_cell_size)
    + DblCellCoord(y, c.min_y, c.inv_cell_size) * c.grid_width
    + DblCellCoord(z, c.min_z, c.inv_cell_size) * c.grid_width * c.grid_height

\* lines 87-88: i appended to cell k, when k is in range
DblAppendAt(g, k, i, c) ==
    IF 0 <= k /\ k < c.grid_size THEN [g EXCEPT ![k] = Append(@, i)] ELSE g

\* lines 76-88: point i appended to its cell, when the flat index is in range
DblPopulatePoint(g, temp, i, c) ==
    DblAppendAt(g, DblGridIndex(PX(temp, i), PY(temp, i), PZ(temp, i), c), i, c)

\* lines 108-114
DblNeighborIndex(temp, i, o, c) ==
    DblGridIndex(DblAdd(PX(temp, i), DblMul(DblInt(o[1]), c.cell_size)),
                 DblAdd(PY(temp, i), DblMul(DblInt(o[2]), c.cell_size)),
                 DblAdd(PZ(temp, i), DblMul(DblInt(o[3]), c.cell_size)), c)

\* lines 128-131
DblSumOfSquares(dx2, dy2, dz2) ==
    DblAdd(DblAdd(DblMul(dx2, dx2), DblMul(dy2, dy2)), DblMul(dz2, dz2))

\* lines 128-131
DblDistanceSquared(temp, i, j) ==
    DblSumOfSquares(DblSub(PX(temp, j), PX(temp, i)),
                    DblSub(PY(temp, j), PY(temp, i)),
                    DblSub(PZ(temp, j), PZ(temp, i)))

\* lines 120-137: the sums after candidate j of point i
DblVisit(acc, j, temp, i, c) ==
    IF i # j /\ DblLe(DblDistanceSquared(temp, i, j), c.radius_squared)
    THEN [sum_x |-> DblAdd(acc.sum_x, PX(temp, j)),
          sum_y |-> DblAdd(acc.sum_y, PY(temp, j)),
          sum_z |-> DblAdd(acc.sum_z, PZ(temp, j)),
          count |-> acc.count + 1]
    ELSE acc

\* lines 119-137: scan one cell, entries n .. end, accumulating into acc
RECURSIVE DblScanCell(_, _, _, _, _, _)
DblScanCell(acc, cell, n, temp, i, c) ==
    IF n > Len(cell) THEN acc
    ELSE CHOOSE r \in {DblScanCell(v, cell, n + 1, temp, i, c) :
                           v \in {DblVisit(acc, cell[n], temp, i, c)}} : TRUE

\* lines 103-137: the 27 lookups of point i, offsets n .. 27
\* lines 116-137: the sums after the lookup of cell k
DblLookup(acc, k, g, temp, i, c) ==
    IF 0 <= k /\ k < c.grid_size
    THEN DblScanCell(acc, g[k], 1, temp, i, c) ELSE acc

RECURSIVE DblScanOffsets(_, _, _, _, _, _)
DblScanOffsets(acc, n, g, temp, i, c) ==
    IF n > 27 THEN acc
    ELSE CHOOSE r \in {DblScanOffsets(v, n + 1, g, temp, i, c) :
                           v \in {DblLookup(acc,
                                     DblNeighborIndex(temp, i, Offsets[n], c),
                                     g, temp, i, c)}} : TRUE

\* lines 139-144 applied to the sums a
DblWriteMean(sm, temp, i, a) ==
    IF a.count > 0
    THEN [sm EXCEPT
             ![3 * i + 1] = DblDivInt(DblAdd(PX(temp, i), a.sum_x), a.count + 1),
             ![3 * i + 2] = DblDivInt(DblAdd(PY(temp, i), a.sum_y), a.count + 1),
             ![3 * i + 3] = DblDivInt(DblAdd(PZ(temp, i), a.sum_z), a.count + 1)]
    ELSE sm

\* lines 91-144: the buffer after point i has been processed
DblProcessPoint(sm, g, temp, i, c) ==
    DblWriteMean(sm, temp, i,
                 DblScanOffsets([sum_x |-> DblZero, sum_y |-> DblZero,
                                 sum_z |-> DblZero, count |-> 0],
                                1, g, temp, i, c))

----------------------------------------------------------------------------
(* voxel_downsample (voxel_downsample_python.py)                           *)

\* lines 26-31
VoxelReturnsEmpty(pts) ==
    Len(pts) = 0 \/ Len(pts) % 3 # 0 \/ NumPoints(pts) = 0

\* line 34 (and voxel_debug_python.py line 34)
VoxelSizeInvalid(s) == FLe(s, Fin(0)) \/ IsNaN(s) \/ IsInf(s)

\* lines 46-48 (and voxel_debug_python.py lines 46-48): only NaN is rejected
BoundsInvalid(b) ==
    \/ IsNaN(b.min_x) \/ IsNaN(b.max_x) \/ IsNaN(b.min_y)
    \/ IsNaN(b.max_y) \/ IsNaN(b.min_z) \/ IsNaN(b.max_z)

\* the float handed to math.floor, lines 76-78
VoxelScaled(v, minv, s) == FMul(FSub(v, minv), FDiv(Fin(1), s))

\* a point loop that also refuses a point below the bounds minimum
FloorRaisesBelowBounds(pts, i, s, b) ==
    \/ ~IsFinite(VoxelScaled(PX(pts, i), b.min_x, s))
    \/ ~IsFinite(VoxelScaled(PY(pts, i), b.min_y, s))
    \/ ~IsFinite(VoxelScaled(PZ(pts, i), b.min_z, s))
    \/ FLt(PX(pts, i), b.min_x) \/ FLt(PY(pts, i), b.min_y)
    \/ FLt(PZ(pts, i), b.min_z)

\* int(math.floor(.)) raises ValueError on NaN and OverflowError on +-Inf
FloorRaises(pts, i, s, b) ==
    \/ ~IsFinite(VoxelScaled(PX(pts, i), b.min_x, s))
    \/ ~IsFinite(VoxelScaled(PY(pts, i), b.min_y, s))
    \/ ~IsFinite(VoxelScaled(PZ(pts, i), b.min_z, s))

\* lines 76-78 (and voxel_debug_python.py lines 75-77)
VoxelIndex(pts, i, s, b) ==
    <<Floor(VoxelScaled(PX(pts, i), b.min_x, s)),
      Floor(VoxelScaled(PY(pts, i), b.min_y, s)),
      Floor(VoxelScaled(PZ(pts, i), b.min_z, s))>>

\* a | b on Python integers (two's complement of unbounded width)
RECURSIVE BitOr(_, _)
BitOr(a, b) ==
    IF a = 0 THEN b
    ELSE IF b = 0 THEN a
    ELSE IF a = -1 \/ b = -1 THEN -1
    ELSE 2 * BitOr(a \div 2, b \div 2) + (IF a % 2 = 1 \/ b % 2 = 1 THEN 1 ELSE 0)

\* 2^16: the shift of voxel_y, and half the shift of voxel_x, in line 81
Limb == 65536

\* line 81 with voxel_x left out of the key
VoxelKeyNoX(v) ==
    <<BitOr(v[2] \div Limb, (v[3] \div Limb) \div Limb),
      BitOr(v[2] % Limb, (v[3] \div Limb) % Limb),
      v[3] % Limb>>

\* line 81: (voxel_x << 32) | (voxel_y << 16) | voxel_z, as the three limbs
\* <<hi, mid, lo>> of the integer hi * 2^32 + mid * 2^16 + lo
VoxelKey(v) ==
    <<BitOr(v[1], BitOr(v[2] \div Limb, (v[3] \div Limb) \div Limb)),
      BitOr(v[2] % Limb, (v[3] \div Limb) % Limb),
      v[3] % Limb>>

\* position of key k in the map's entry list, 0 when absent (line 84)
RECURSIVE MapFind(_, _, _)
MapFind(m, k, n) ==
    IF n > Len(m) THEN 0
    ELSE IF m[n].key = k THEN n
    ELSE MapFind(m, k, n + 1)

\* lines 84-92 with line 92 left out: the count stays 1
AccumulateNoCount(m, pts, i, s, b) ==
    LET k == VoxelKey(VoxelIndex(pts, i, s, b))
        n == MapFind(m, k, 1)
    IN  IF n = 0
        THEN Append(m, [key |-> k, sum_x |-> PX(pts, i), sum_y |-> PY(pts, i),
                        sum_z |-> PZ(pts, i), count |-> 1])
        ELSE [m EXCEPT ![n] = [key |-> k,
                               sum_x |-> FAdd(@.sum_x, PX(pts, i)),
                               sum_y |-> FAdd(@.sum_y, PY(pts, i)),
                               sum_z |-> FAdd(@.sum_z, PZ(pts, i)),
                               count |-> @.count]]

\* lines 84-92: the map after point i (whose floor does not raise)
Accumulate(m, pts, i, s, b) ==
    LET k == VoxelKey(VoxelIndex(pts, i, s, b))
        n == MapFind(m, k, 1)
    IN  IF n = 0
        THEN Append(m, [key |-> k, sum_x |-> PX(pts, i), sum_y |-> PY(pts, i),
                        sum_z |-> PZ(pts, i), count |-> 1])
        ELSE [m EXCEPT ![n] = [key |-> k,
                               sum_x |-> FAdd(@.sum_x, PX(pts, i)),
                               sum_y |-> FAdd(@.sum_y, PY(pts, i)),
                               sum_z |-> FAdd(@.sum_z, PZ(pts, i)),
                               count |-> @.count + 1]]

\* lines 99-106: the means, in the map's order
RECURSIVE EmitFrom(_, _)
EmitFrom(m, n) ==
    IF n > Len(m) THEN <<>>
    ELSE LET inv_count == FDiv(Fin(1), Fin(m[n].count))
         IN  <<FMul(m[n].sum_x, inv_count), FMul(m[n].sum_y, inv_count),
               FMul(m[n].sum_z, inv_count)>> \o EmitFrom(m, n + 1)

\* lines 99-106 with the inverse taken of count + 1
DownsampledPointsOffByOne(m) ==
    EmitFrom([n \in 1 .. Len(m) |-> [m[n] EXCEPT !.count = @ + 1]], 1)

\* lines 96-106
DownsampledPoints(m) == EmitFrom(m, 1)

----------------------------------------------------------------------------
(* generate_voxel_centers (voxel_debug_python.py)                          *)

\* line 71
CoordinateInvalid(pts, i) ==
    \/ IsNaN(PX(pts, i)) \/ IsNaN(PY(pts, i)) \/ IsNaN(PZ(pts, i))
    \/ IsInf(PX(pts, i)) \/ IsInf(PY(pts, i)) \/ IsInf(PZ(pts, i))

\* lines 86-88 with min used in place of the offsets of lines 55-57
VoxelCenterCorner(v, s, b) ==
    <<FAdd(b.min_x, FMul(Fin(v[1]), s)),
      FAdd(b.min_y, FMul(Fin(v[2]), s)),
      FAdd(b.min_z, FMul(Fin(v[3]), s))>>

\* lines 52-57 and 86-88: center of voxel v
VoxelCenter(v, s, b) ==
    LET half_voxel_size == FMul(s, <<1, 2>>)
    IN  <<FAdd(FAdd(b.min_x, half_voxel_size), FMul(Fin(v[1]), s)),
          FAdd(FAdd(b.min_y, half_voxel_size), FMul(Fin(v[2]), s)),
          FAdd(FAdd(b.min_z, half_voxel_size), FMul(Fin(v[3]), s))>>

\* lines 83-90: the centers of the voxels listed in order
RECURSIVE CentersOf(_, _, _, _)
CentersOf(order, n, s, b) ==
    IF n > Len(order) THEN <<>>
    ELSE VoxelCenter(order[n], s, b) \o CentersOf(order, n + 1, s, b)

\* the orders in which a Python set of tuples may be iterated
Orderings(S) ==
    {o \in [1 .. Cardinality(S) -> S] : \A a, b \in DOMAIN o : a # b => o[a] # o[b]}

----------------------------------------------------------------------------
(* Inputs of the kernel specifications                                     *)

MaxPoints == 3

\* iteration counts the smoothing inputs are drawn from (0 is rejected)
IterationCounts == {0, 1, 2}

P3(x, y, z) == <<Fin(x), Fin(y), Fin(z)>>

\* positions the smoothing inputs are drawn from
SmoothCloud == {P3(0, 0, 0), P3(2, 0, 0), P3(1, 1, 1), P3(2, 2, 2)}

\* flat lists of exactly n points of S
RECURSIVE FlatLists(_, _)
FlatLists(S, n) ==
    IF n = 0 THEN {<<>>}
    ELSE {l \o p : l \in FlatLists(S, n - 1), p \in S}

FlatListsUpTo(S, n) == UNION {FlatLists(S, k) : k \in 0 .. n}

SmoothRadii == {Fin(0), Fin(1), Fin(2), Fin(5)}

\* what a kernel handed back: the list it returned (count: the voxel_count
\* voxel_downsample returns beside it, 0 for the other kernels) or an exception
Returned(v) == [kind |-> "return", value |-> v, count |-> 0]
ReturnedWithCount(v, n) == [kind |-> "return", value |-> v, count |-> n]
Raised == [kind |-> "raise", value |-> <<>>, count |-> 0]
NoResult == [kind |-> "none", value |-> <<>>, count |-> 0]

\* positions the voxel kernels' inputs are drawn from: inside the bounds,
\* below the bounds minimum, far above it, and not finite
VoxelCloud ==
    {P3(0, 0, 0), <<<<3, 4>>, <<3, 4>>, <<3, 4>>>>, P3(1, 0, 0),
     P3(0, 0, -1), P3(1, 0, -1), P3(0, 65536, 0),
     <<NaN, Fin(0), Fin(0)>>, <<Fin(0), PInf, Fin(0)>>}

VoxelSizes == {Fin(0), Fin(1), Fin(2), NaN}

Bounds(lo, hi) ==
    [min_x |-> lo[1], min_y |-> lo[2], min_z |-> lo[3],
     max_x |-> hi[1], max_y |-> hi[2], max_z |-> hi[3]]

BoundsChoices ==
    {Bounds(P3(0, 0, 0), P3(2, 2, 2)),
     Bounds(<<NaN, Fin(0), Fin(0)>>, P3(2, 2, 2)),
     Bounds(<<Fin(0), NInf, Fin(0)>>, P3(2, 2, 2))}

NoBounds == Bounds(P3(0, 0, 0), P3(0, 0, 0))

SmoothIdle ==
    /\ smoothing_radius = Fin(0)
    /\ iterations = 0
    /\ smoothed_points = <<>>
    /\ temp_points = <<>>
    /\ grid = <<>>
    /\ iter = 0

VoxelIdle ==
    /\ voxel_size = Fin(0)
    /\ global_bounds = NoBounds
    /\ voxel_map = <<>>
    /\ voxel_coords = {}

\* standard input as a driver sees it: header_len bytes of header (fewer than
\* the header size when the stream ends early), the header fields, the
\* position floats that follow and the count of bytes after them
\* unit is the binary exponent of the length unit of the stream: a length in
\* it (a coordinate, a radius, a voxel size, a bound) is the modelled rational
\* times 2^unit.  The kernels only divide lengths by lengths and compare them
\* with lengths, so they compute the same thing in every unit.
Stdin(n, h, f, e) ==
    [header_len |-> n, header |-> h, floats |-> f, extra |-> e, unit |-> 0]
InUnit(in, u) == [in EXCEPT !.unit = u]

Header(n, s, r, k, b, fl) ==
    [point_count |-> n, voxel_size |-> s, smoothing_radius |-> r,
     iterations |-> k, global_bounds |-> b, flags |-> fl]

NoStdin == Stdin(0, Header(0, Fin(0), Fin(0), Fin(0), NoBounds, 0), <<>>, 0)

DriverIdle ==
    /\ stdin = NoStdin
    /\ consumed = 0
    /\ stdout = <<>>
    /\ exit_code = -1

----------------------------------------------------------------------------
(* point_cloud_smooth as a state machine: one action per loop body         *)

Ctx == SmoothSetup(points, smoothing_radius)

SmoothInit ==
    /\ pc = "smooth_entry"
    /\ points \in FlatListsUpTo(SmoothCloud, MaxPoints)
    /\ smoothing_radius \in SmoothRadii
    /\ iterations \in IterationCounts
    /\ smoothed_points = <<>>
    /\ temp_points = <<>>
    /\ grid = <<>>
    /\ iter = 0
    /\ cur = 0
    /\ result = NoResult
    /\ VoxelIdle
    /\ DriverIdle

\* lines 21-63
SmoothEnter ==
    /\ pc = "smooth_entry"
    /\ IF SmoothReturnsEmpty(points)
       THEN /\ result' = Returned(<<>>)
            /\ pc' = "smooth_done"
            /\ UNCHANGED <<smoothed_points, temp_points, grid>>
       ELSE IF SmoothRejects(smoothing_radius, iterations)
       THEN /\ result' = Raised
            /\ pc' = "smooth_done"
            /\ UNCHANGED <<smoothed_points, temp_points, grid>>
       ELSE /\ smoothed_points' = points
            /\ temp_points' = [k \in 1 .. Len(points) |-> Fin(0)]
            /\ grid' = EmptyGrid(Ctx)
            /\ pc' = "smooth_loop"
            /\ UNCHANGED result
    /\ UNCHANGED <<points, smoothing_radius, iterations, iter, cur, voxelVars, driverVars>>

\* lines 66-88: copy the buffer, clear and populate the grid
SmoothIterBegin ==
    /\ pc = "smooth_loop"
    /\ iter < iterations
    /\ temp_points' = smoothed_points
    /\ grid' = PopulateGrid(smoothed_points, Ctx)
    /\ cur' = 0
    /\ pc' = "smooth_point"
    /\ UNCHANGED <<points, smoothing_radius, iterations, smoothed_points,
                   iter, result, voxelVars, driverVars>>

\* the per-point loop reading positions from the buffer it writes
SmoothProcessPointInPlace ==
    /\ pc = "smooth_point"
    /\ cur < NumPoints(points)
    /\ smoothed_points' =
           ProcessPoint(smoothed_points, grid, smoothed_points, cur, Ctx)
    /\ cur' = cur + 1
    /\ IF cur + 1 = NumPoints(points)
       THEN pc' = "smooth_loop" /\ iter' = iter + 1
       ELSE pc' = "smooth_point" /\ iter' = iter
    /\ UNCHANGED <<points, smoothing_radius, iterations, temp_points, grid,
                   result, voxelVars, driverVars>>

\* lines 91-144: one pass of the per-point loop
SmoothProcessPoint ==
    /\ pc = "smooth_point"
    /\ cur < NumPoints(points)
    /\ smoothed_points' = ProcessPoint(smoothed_points, grid, temp_points, cur, Ctx)
    /\ cur' = cur + 1
    /\ IF cur + 1 = NumPoints(points)
       THEN pc' = "smooth_loop" /\ iter' = iter + 1
       ELSE pc' = "smooth_point" /\ iter' = iter
    /\ UNCHANGED <<points, smoothing_radius, iterations, temp_points, grid,
                   result, voxelVars, driverVars>>

\* line 146
SmoothReturn ==
    /\ pc = "smooth_loop"
    /\ iter = iterations
    /\ result' = Returned(smoothed_points)
    /\ pc' = "smooth_done"
    /\ UNCHANGED <<points, cur, smoothVars, voxelVars, driverVars>>

SmoothNext == SmoothEnter \/ SmoothIterBegin \/ SmoothProcessPoint \/ SmoothReturn

SpecSmooth == SmoothInit /\ [][SmoothNext]_vars


----------------------------------------------------------------------------
(* One iteration of point_cloud_smooth with the cell arithmetic in floats, *)
(* on integer-valued points and radii                                       *)

\* integer positions: a cloud whose spacing meets a radius of 49 at cell
\* borders, and the same cloud under a radius that is a power of two
GridCloud ==
    {P3(0, 0, 0), P3(196, 0, 0), P3(197, 0, 0), P3(196, 196, 196),
     P3(294, 294, 294)}

GridRadii == {Fin(49), Fin(64)}

GridCtx == SmoothSetup64(points, smoothing_radius)

\* what the neighbour search of one point gathered: the indices added, in
\* order, and their number
Gathered(a) == [kind |-> "gathered", value |-> a.seen, count |-> a.count]

GridInit ==
    /\ pc = "grid_entry"
    /\ points \in FlatListsUpTo(GridCloud, MaxPoints)
    /\ smoothing_radius \in GridRadii
    /\ iterations = 1
    /\ smoothed_points = <<>>
    /\ temp_points = <<>>
    /\ grid = <<>>
    /\ iter = 0
    /\ cur = 0
    /\ result = NoResult
    /\ VoxelIdle
    /\ DriverIdle

\* lines 21-72: the early return, the set-up, the copy and the cleared grid
GridEnter ==
    /\ pc = "grid_entry"
    /\ IF SmoothReturnsEmpty(points)
       THEN /\ result' = Returned(<<>>)
            /\ pc' = "grid_done"
            /\ UNCHANGED <<smoothed_points, temp_points, grid>>
       ELSE /\ smoothed_points' = points
            /\ temp_points' = points
            /\ grid' = EmptyGrid(GridCtx)
            /\ pc' = "grid_populate"
            /\ UNCHANGED result
    /\ UNCHANGED <<points, smoothing_radius, iterations, iter, cur, voxelVars,
                   driverVars>>

\* lines 75-88: one pass of the population loop
GridPopulatePoint ==
    /\ pc = "grid_populate"
    /\ grid' = PopulatePoint64(grid, temp_points, cur, GridCtx)
    /\ IF cur + 1 = NumPoints(points)
       THEN pc' = "grid_point" /\ cur' = 0
       ELSE pc' = pc /\ cur' = cur + 1
    /\ UNCHANGED <<points, smoothing_radius, iterations, smoothed_points,
                   temp_points, iter, result, voxelVars, driverVars>>

\* lines 91-144: one pass of the per-point loop
GridProcessPoint ==
    /\ pc = "grid_point"
    /\ cur < NumPoints(points)
    /\ LET a == Gather64(grid, temp_points, cur, GridCtx)
       IN  /\ result' = Gathered(a)
           /\ smoothed_points' = WriteMean(smoothed_points, temp_points, cur, a)
    /\ cur' = cur + 1
    /\ iter' = IF cur + 1 = NumPoints(points) THEN iter + 1 ELSE iter
    /\ UNCHANGED <<points, smoothing_radius, iterations, temp_points, grid, pc,
                   voxelVars, driverVars>>

\* line 146
GridReturn ==
    /\ pc = "grid_point"
    /\ cur = NumPoints(points)
    /\ result' = Returned(smoothed_points)
    /\ pc' = "grid_done"
    /\ UNCHANGED <<points, cur, smoothVars, voxelVars, driverVars>>

GridNext == GridEnter \/ GridPopulatePoint \/ GridProcessPoint \/ GridReturn

SpecGrid == GridInit /\ [][GridNext]_vars

----------------------------------------------------------------------------
(* point_cloud_smooth in binary64 as a state machine                       *)

D3(x, y, z) == <<x, y, z>>

\* positions: the origin, a point well inside, and a point two units in the
\* last place below 15, where a cell of width 5 ends
DblCloud ==
    {D3(DblInt(0), DblInt(0), DblInt(0)),
     D3(DblInt(7), DblInt(0), DblInt(0)),
     D3(DblBelow(15, 2), DblInt(0), DblInt(0))}

DblRadii == {DblInt(5)}

DblCtx == DblSetup(points, smoothing_radius)

DblInit ==
    /\ pc = "dbl_entry"
    /\ points \in FlatListsUpTo(DblCloud, MaxPoints + 1)
    /\ smoothing_radius \in DblRadii
    /\ iterations \in {1, 2}
    /\ smoothed_points = <<>>
    /\ temp_points = <<>>
    /\ grid = <<>>
    /\ iter = 0
    /\ cur = 0
    /\ result = NoResult
    /\ VoxelIdle
    /\ DriverIdle

\* lines 21-63: the early return, the buffers and the grid
DblEnter ==
    /\ pc = "dbl_entry"
    /\ IF SmoothReturnsEmpty(points)
       THEN /\ result' = Returned(<<>>)
            /\ pc' = "dbl_done"
            /\ UNCHANGED <<smoothed_points, temp_points, grid>>
       ELSE /\ smoothed_points' = points
            /\ temp_points' = [k \in 1 .. Len(points) |-> DblZero]
            /\ grid' = EmptyGrid(DblCtx)
            /\ pc' = "dbl_iter"
            /\ UNCHANGED result
    /\ UNCHANGED <<points, smoothing_radius, iterations, iter, cur, voxelVars,
                   driverVars>>

\* lines 66-72: the copy and the cleared grid
DblIterBegin ==
    /\ pc = "dbl_iter"
    /\ iter < iterations
    /\ temp_points' = smoothed_points
    /\ grid' = EmptyGrid(DblCtx)
    /\ cur' = 0
    /\ pc' = "dbl_populate"
    /\ UNCHANGED <<points, smoothing_radius, iterations, smoothed_points, iter,
                   result, voxelVars, driverVars>>

\* lines 75-88: one pass of the population loop
DblPopulate ==
    /\ pc = "dbl_populate"
    /\ grid' = DblPopulatePoint(grid, temp_points, cur, DblCtx)
    /\ IF cur + 1 = NumPoints(points)
       THEN pc' = "dbl_point" /\ cur' = 0
       ELSE pc' = pc /\ cur' = cur + 1
    /\ UNCHANGED <<points, smoothing_radius, iterations, smoothed_points,
                   temp_points, iter, result, voxelVars, driverVars>>

\* lines 91-144: one pass of the per-point loop
DblProcess ==
    /\ pc = "dbl_point"
    /\ smoothed_points' =
           DblProcessPoint(smoothed_points, grid, temp_points, cur, DblCtx)
    /\ IF cur + 1 = NumPoints(points)
       THEN pc' = "dbl_iter" /\ iter' = iter + 1 /\ cur' = 0
       ELSE pc' = pc /\ iter' = iter /\ cur' = cur + 1
    /\ UNCHANGED <<points, smoothing_radius, iterations, temp_points, grid,
                   result, voxelVars, driverVars>>

\* line 146
DblReturn ==
    /\ pc = "dbl_iter"
    /\ iter = iterations
    /\ result' = Returned(smoothed_points)
    /\ pc' = "dbl_done"
    /\ UNCHANGED <<points, cur, smoothVars, voxelVars, driverVars>>

DblNext == DblEnter \/ DblIterBegin \/ DblPopulate \/ DblProcess \/ DblReturn

SpecDouble == DblInit /\ [][DblNext]_vars

----------------------------------------------------------------------------
(* voxel_downsample and generate_voxel_centers as state machines           *)

VoxelInit ==
    /\ pc \in {"down_entry", "debug_entry"}
    /\ points \in FlatListsUpTo(VoxelCloud, MaxPoints)
    /\ voxel_size \in VoxelSizes
    /\ global_bounds \in BoundsChoices
    /\ voxel_map = <<>>
    /\ voxel_coords = {}
    /\ cur = 0
    /\ result = NoResult
    /\ SmoothIdle
    /\ DriverIdle

\* voxel_downsample_python.py lines 26-60
DownEnter ==
    /\ pc = "down_entry"
    /\ IF VoxelReturnsEmpty(points)
       THEN result' = ReturnedWithCount(<<>>, 0) /\ pc' = "down_done"
       ELSE IF VoxelSizeInvalid(voxel_size) \/ BoundsInvalid(global_bounds)
       THEN result' = Raised /\ pc' = "down_done"
       ELSE result' = result /\ pc' = "down_loop"
    /\ UNCHANGED <<points, cur, smoothVars, driverVars, voxelVars>>

\* voxel_downsample_python.py lines 63-92: one pass of the point loop
DownAccumulate ==
    /\ pc = "down_loop"
    /\ cur < NumPoints(points)
    /\ IF FloorRaises(points, cur, voxel_size, global_bounds)
       THEN /\ result' = Raised
            /\ pc' = "down_done"
            /\ UNCHANGED <<cur, voxel_map>>
       ELSE /\ voxel_map' = Accumulate(voxel_map, points, cur, voxel_size,
                                       global_bounds)
            /\ cur' = cur + 1
            /\ UNCHANGED <<pc, result>>
    /\ UNCHANGED <<points, smoothVars, driverVars, voxel_size, global_bounds, voxel_coords>>

\* voxel_downsample_python.py lines 95-108
DownEmit ==
    /\ pc = "down_loop"
    /\ cur = NumPoints(points)
    /\ result' = ReturnedWithCount(DownsampledPoints(voxel_map), Len(voxel_map))
    /\ pc' = "down_done"
    /\ UNCHANGED <<points, cur, smoothVars, driverVars, voxelVars>>

\* voxel_debug_python.py lines 26-60
DebugEnter ==
    /\ pc = "debug_entry"
    /\ IF VoxelReturnsEmpty(points)
       THEN result' = Returned(<<>>) /\ pc' = "debug_done"
       ELSE IF VoxelSizeInvalid(voxel_size) \/ BoundsInvalid(global_bounds)
       THEN result' = Raised /\ pc' = "debug_done"
       ELSE result' = result /\ pc' = "debug_loop"
    /\ UNCHANGED <<points, cur, smoothVars, driverVars, voxelVars>>

\* voxel_debug_python.py lines 64-80: one pass of the point loop
DebugScan ==
    /\ pc = "debug_loop"
    /\ cur < NumPoints(points)
    /\ IF CoordinateInvalid(points, cur)
       THEN /\ cur' = cur + 1
            /\ UNCHANGED <<pc, result, voxel_coords>>
       ELSE IF FloorRaises(points, cur, voxel_size, global_bounds)
       THEN /\ result' = Raised
            /\ pc' = "debug_done"
            /\ UNCHANGED <<cur, voxel_coords>>
       ELSE /\ voxel_coords' = voxel_coords \cup
                    {VoxelIndex(points, cur, voxel_size, global_bounds)}
            /\ cur' = cur + 1
            /\ UNCHANGED <<pc, result>>
    /\ UNCHANGED <<points, smoothVars, driverVars, voxel_size, global_bounds, voxel_map>>

\* voxel_debug_python.py lines 83-92: the set is iterated in some order
DebugEmit ==
    /\ pc = "debug_loop"
    /\ cur = NumPoints(points)
    /\ \E order \in Orderings(voxel_coords) :
           result' = Returned(CentersOf(order, 1, voxel_size, global_bounds))
    /\ pc' = "debug_done"
    /\ UNCHANGED <<points, cur, smoothVars, driverVars, voxelVars>>

VoxelNext ==
    \/ DownEnter \/ DownAccumulate \/ DownEmit
    \/ DebugEnter \/ DebugScan \/ DebugEmit

SpecVoxel == VoxelInit /\ [][VoxelNext]_vars

----------------------------------------------------------------------------
(* The binary drivers: main() of the three *_cython_wrapper.py scripts     *)

MaxPayload == 2

MAX_POINTS == 100000000

MaxBytesToRead == 2000000000

\* items written to standard output: struct.pack('<I', n) and
\* struct.pack('<{n}f', *values) / struct.pack('<{n}B', *values)
U32(n) == [type |-> "u32", count |-> 1, values |-> <<n>>]
F32s(l) == [type |-> "f32", count |-> Len(l), values |-> l]

\* the largest binary32 value is F32MaxMantissa * 2^F32MaxExp
F32MaxExp == 104
F32MaxMantissa == 2 ^ 24 - 1

\* struct.pack('<f', v * 2^u) raises OverflowError: v is finite and rounds
\* (to nearest, ties to even) to a binary32 beyond the largest one.  In unit
\* 0 no modelled value is that large.
PackRaises(v, u) ==
    /\ IsFinite(v)
    /\ u = F32MaxExp
    /\ LET q == Abs(v[1]) \div v[2]
           r == Abs(v[1]) % v[2]
       IN  \/ q > F32MaxMantissa
           \/ q = F32MaxMantissa /\ 2 * r >= v[2]

\* struct.pack(f'<{n}f', *l) raises
PackFails(l, u) == \E i \in 1 .. Len(l) : PackRaises(l[i], u)
\* an attribute array of n elements; the element values are not modelled
AttributeArray(t, n) == [type |-> t, count |-> n, values |-> <<>>]

\* bytes that follow the header in standard input
BodyBytes(in) == 4 * Len(in.floats) + in.extra

\* sys.stdin.buffer.read(n): the bytes returned are at most those left
ReadLen(in, headerSize, done, n) ==
    LET left == BodyBytes(in) - (done - headerSize)
    IN  IF n <= left THEN n ELSE left

\* the parsed position list: the first 3 * point_count floats of the body
UnpackPoints(in) == SubSeq(in.floats, 1, 3 * in.header.point_count)

----------------------------------------------------------------------------
(* point_smooth_cython_wrapper.py                                          *)

\* int((max - min) * inv_cell_size) at line 57 and int((x - min) *
\* inv_cell_size) at line 111 of point_smooth_python.py raise for a radius
\* that is NaN or infinite (NaN * x, and -inf * 0.0, are NaN)
SmoothRaises(pts, r, K) == SmoothRejects(r, K) \/ ~IsFinite(r)

\* point_cloud_smooth(points, smoothing_radius, iterations) as the driver
\* calls it
SmoothKernel(pts, r, K) ==
    IF SmoothReturnsEmpty(pts) THEN Returned(<<>>)
    ELSE IF SmoothRaises(pts, r, K) THEN Raised
    ELSE Returned(PointCloudSmooth(pts, r, K))

\* lines 35-37
SmReadHeader ==
    /\ pc = "sm_header"
    /\ consumed' = stdin.header_len
    /\ IF stdin.header_len # 12
       THEN exit_code' = 1 /\ pc' = "sm_exit"
       ELSE exit_code' = exit_code /\ pc' = "sm_validate"
    /\ UNCHANGED <<stdin, stdout, points, cur, result, smoothVars, voxelVars>>

\* lines 39-47; int(iterations) raises for NaN and infinity, which the
\* handler of lines 71-75 turns into u32 0 and exit status 1
SmValidate ==
    /\ pc = "sm_validate"
    /\ LET h == stdin.header
       IN  IF ~IsFinite(h.iterations)
           THEN /\ stdout' = Append(stdout, U32(0))
                /\ exit_code' = 1
                /\ pc' = "sm_exit"
                /\ UNCHANGED <<smoothing_radius, iterations>>
           ELSE IF \/ h.point_count = 0
                   \/ FLe(h.smoothing_radius, Fin(0))
                   \/ PyInt(h.iterations) <= 0
           THEN /\ stdout' = Append(stdout, U32(0))
                /\ exit_code' = 0
                /\ pc' = "sm_exit"
                /\ UNCHANGED <<smoothing_radius, iterations>>
           ELSE /\ smoothing_radius' = h.smoothing_radius
                /\ iterations' = PyInt(h.iterations)
                /\ pc' = "sm_payload"
                /\ UNCHANGED <<stdout, exit_code>>
    /\ UNCHANGED <<stdin, consumed, points, cur, result, smoothed_points,
                   temp_points, grid, iter, voxelVars>>

\* lines 50-57
SmReadPayload ==
    /\ pc = "sm_payload"
    /\ LET bytes_to_read == stdin.header.point_count * 3 * 4
           got == ReadLen(stdin, 12, consumed, bytes_to_read)
       IN  /\ consumed' = consumed + got
           /\ IF got # bytes_to_read
              THEN exit_code' = 1 /\ pc' = "sm_exit" /\ points' = points
              ELSE /\ points' = UnpackPoints(stdin)
                   /\ pc' = "sm_kernel"
                   /\ exit_code' = exit_code
    /\ UNCHANGED <<stdin, stdout, cur, result, smoothVars, voxelVars>>

\* line 61, and lines 71-75 when the kernel raises
SmKernel ==
    /\ pc = "sm_kernel"
    /\ result' = SmoothKernel(points, smoothing_radius, iterations)
    /\ IF result'.kind = "raise"
       THEN /\ stdout' = Append(stdout, U32(0))
            /\ exit_code' = 1
            /\ pc' = "sm_exit"
       ELSE /\ pc' = "sm_output"
            /\ UNCHANGED <<stdout, exit_code>>
    /\ UNCHANGED <<stdin, consumed, points, cur, smoothVars, voxelVars>>

\* lines 66-69, and lines 71-75 when struct.pack raises after the count
\* was written
SmOutput ==
    /\ pc = "sm_output"
    /\ LET output_count == Len(result.value) \div 3
       IN  IF PackFails(result.value, stdin.unit)
           THEN /\ stdout' = stdout \o <<U32(output_count), U32(0)>>
                /\ exit_code' = 1
           ELSE /\ stdout' = stdout
                       \o <<U32(output_count), F32s(result.value)>>
                /\ exit_code' = 0
    /\ pc' = "sm_exit"
    /\ UNCHANGED <<stdin, consumed, points, cur, result, smoothVars, voxelVars>>

----------------------------------------------------------------------------
(* voxel_downsample_cython_wrapper.py                                      *)

\* lines 32-34
UseColors(flags) == flags % 2 = 1
UseIntensity(flags) == (flags \div 2) % 2 = 1
UseClassification(flags) == (flags \div 4) % 2 = 1

\* the sizes of the reads of lines 52-74, in order
PayloadReads(n, flags) ==
    <<n * 3 * 4>>
    \o (IF UseColors(flags) THEN <<n * 3 * 4>> ELSE <<>>)
    \o (IF UseIntensity(flags) THEN <<n * 4>> ELSE <<>>)
    \o (IF UseClassification(flags) THEN <<n>> ELSE <<>>)

\* the reads in order, stopping at the first short one
RECURSIVE ReadAll(_, _, _, _, _)
ReadAll(in, headerSize, done, reads, k) ==
    IF k > Len(reads) THEN [complete |-> TRUE, consumed |-> done]
    ELSE LET got == ReadLen(in, headerSize, done, reads[k])
         IN  IF got < reads[k]
             THEN [complete |-> FALSE, consumed |-> done + got]
             ELSE ReadAll(in, headerSize, done + got, reads, k + 1)

RECURSIVE AccumulateFrom(_, _, _, _, _)
AccumulateFrom(m, pts, i, s, b) ==
    IF i = NumPoints(pts) THEN m
    ELSE AccumulateFrom(Accumulate(m, pts, i, s, b), pts, i + 1, s, b)

\* voxel_downsample(points, voxel_size, global_bounds) as the driver calls it
VoxelDownsample(pts, s, b) ==
    IF VoxelReturnsEmpty(pts) THEN ReturnedWithCount(<<>>, 0)
    ELSE IF VoxelSizeInvalid(s) \/ BoundsInvalid(b) THEN Raised
    ELSE IF \E i \in 0 .. NumPoints(pts) - 1 : FloorRaises(pts, i, s, b)
    THEN Raised
    ELSE LET m == AccumulateFrom(<<>>, pts, 0, s, b)
         IN  ReturnedWithCount(DownsampledPoints(m), Len(m))

\* voxel_downsample_with_attributes: the positions of voxel_downsample and,
\* for each attribute array passed, an array with one entry per voxel
AttributeOutput(flags, m) ==
    (IF UseColors(flags) THEN <<AttributeArray("f32", 3 * m)>> ELSE <<>>)
    \o (IF UseIntensity(flags) THEN <<AttributeArray("f32", m)>> ELSE <<>>)
    \o (IF UseClassification(flags) THEN <<AttributeArray("u8", m)>> ELSE <<>>)

\* lines 26-28
DsReadHeader ==
    /\ pc = "ds_header"
    /\ consumed' = stdin.header_len
    /\ IF stdin.header_len < 36
       THEN exit_code' = 1 /\ pc' = "ds_exit"
       ELSE exit_code' = exit_code /\ pc' = "ds_validate"
    /\ UNCHANGED <<stdin, stdout, points, cur, result, smoothVars, voxelVars>>

\* lines 30-50
DsValidate ==
    /\ pc = "ds_validate"
    /\ LET h == stdin.header
       IN  IF h.point_count = 0 \/ FLe(h.voxel_size, Fin(0))
           THEN /\ stdout' = Append(stdout, U32(0))
                /\ exit_code' = 0
                /\ pc' = "ds_exit"
                /\ UNCHANGED <<voxel_size, global_bounds>>
           ELSE IF \/ h.point_count > MAX_POINTS
                   \/ h.point_count * 3 * 4 > MaxBytesToRead
           THEN /\ exit_code' = 1
                /\ pc' = "ds_exit"
                /\ UNCHANGED <<stdout, voxel_size, global_bounds>>
           ELSE /\ voxel_size' = h.voxel_size
                /\ global_bounds' = h.global_bounds
                /\ pc' = "ds_payload"
                /\ UNCHANGED <<stdout, exit_code>>
    /\ UNCHANGED <<stdin, consumed, points, cur, result, smoothVars,
                   voxel_map, voxel_coords>>

\* lines 52-74
DsReadPayload ==
    /\ pc = "ds_payload"
    /\ LET h == stdin.header
           r == ReadAll(stdin, 36, consumed,
                        PayloadReads(h.point_count, h.flags), 1)
       IN  /\ consumed' = r.consumed
           /\ IF r.complete
              THEN /\ points' = UnpackPoints(stdin)
                   /\ pc' = "ds_kernel"
                   /\ exit_code' = exit_code
              ELSE exit_code' = 1 /\ pc' = "ds_exit" /\ points' = points
    /\ UNCHANGED <<stdin, stdout, cur, result, smoothVars, voxelVars>>

\* lines 86-87 and 93-95, and lines 107-114 when the kernel raises
\* the kernel call with an exception that leaves main unhandled: the handler
\* of lines 107-114 removed
DsKernelUnhandled ==
    /\ pc = "ds_kernel"
    /\ result' = VoxelDownsample(points, voxel_size, global_bounds)
    /\ IF result'.kind = "raise"
       THEN /\ exit_code' = 1
            /\ pc' = "ds_exit"
            /\ UNCHANGED stdout
       ELSE /\ pc' = "ds_output"
            /\ UNCHANGED <<stdout, exit_code>>
    /\ UNCHANGED <<stdin, consumed, points, cur, smoothVars, voxelVars>>

\* lines 86 and 93-95, and lines 107-114 when the kernel raises
DsKernel ==
    /\ pc = "ds_kernel"
    /\ result' = VoxelDownsample(points, voxel_size, global_bounds)
    /\ IF result'.kind = "raise"
       THEN /\ stdout' = Append(stdout, U32(0))
            /\ exit_code' = 1
            /\ pc' = "ds_exit"
       ELSE /\ pc' = "ds_output"
            /\ UNCHANGED <<stdout, exit_code>>
    /\ UNCHANGED <<stdin, consumed, points, cur, smoothVars, voxelVars>>

\* lines 88-91 without attributes, lines 96-105 with them, and lines
\* 107-114 when struct.pack raises after the count was written
DsOutput ==
    /\ pc = "ds_output"
    /\ LET output_count == Len(result.value) \div 3
           flags == stdin.header.flags
       IN  IF PackFails(result.value, stdin.unit)
           THEN /\ stdout' = stdout \o <<U32(output_count), U32(0)>>
                /\ exit_code' = 1
           ELSE /\ IF /\ ~UseColors(flags)
                      /\ ~UseIntensity(flags)
                      /\ ~UseClassification(flags)
                   THEN stdout' = stdout \o <<U32(output_count)>>
                            \o (IF output_count > 0
                                THEN <<F32s(result.value)>> ELSE <<>>)
                   ELSE stdout' = stdout
                            \o <<U32(output_count), F32s(result.value)>>
                            \o AttributeOutput(flags, output_count)
                /\ exit_code' = 0
    /\ pc' = "ds_exit"
    /\ UNCHANGED <<stdin, consumed, points, cur, result, smoothVars, voxelVars>>

----------------------------------------------------------------------------
(* voxel_debug_cython_wrapper.py                                           *)

\* the voxels generate_voxel_centers collects
VoxelCoordsOf(pts, s, b) ==
    {VoxelIndex(pts, i, s, b) :
        i \in {j \in 0 .. NumPoints(pts) - 1 : ~CoordinateInvalid(pts, j)}}

\* generate_voxel_centers(points, voxel_size, global_bounds) as the driver
\* calls it: one outcome for each order the set may be iterated in
GenerateVoxelCenters(pts, s, b) ==
    IF VoxelReturnsEmpty(pts) THEN {Returned(<<>>)}
    ELSE IF VoxelSizeInvalid(s) \/ BoundsInvalid(b) THEN {Raised}
    ELSE IF \E i \in 0 .. NumPoints(pts) - 1 :
                ~CoordinateInvalid(pts, i) /\ FloorRaises(pts, i, s, b)
    THEN {Raised}
    ELSE {Returned(CentersOf(order, 1, s, b)) :
             order \in Orderings(VoxelCoordsOf(pts, s, b))}

\* lines 29-31
DbgReadHeader ==
    /\ pc = "dbg_header"
    /\ consumed' = stdin.header_len
    /\ IF stdin.header_len < 32
       THEN exit_code' = 1 /\ pc' = "dbg_exit"
       ELSE exit_code' = exit_code /\ pc' = "dbg_validate"
    /\ UNCHANGED <<stdin, stdout, points, cur, result, smoothVars, voxelVars>>

\* lines 34-54
DbgValidate ==
    /\ pc = "dbg_validate"
    /\ LET h == stdin.header
       IN  IF h.point_count = 0 \/ FLe(h.voxel_size, Fin(0))
           THEN /\ stdout' = Append(stdout, U32(0))
                /\ exit_code' = 0
                /\ pc' = "dbg_exit"
                /\ UNCHANGED <<voxel_size, global_bounds>>
           ELSE IF \/ h.point_count > MAX_POINTS
                   \/ h.point_count * 3 * 4 > MaxBytesToRead
           THEN /\ exit_code' = 1
                /\ pc' = "dbg_exit"
                /\ UNCHANGED <<stdout, voxel_size, global_bounds>>
           ELSE /\ voxel_size' = h.voxel_size
                /\ global_bounds' = h.global_bounds
                /\ pc' = "dbg_payload"
                /\ UNCHANGED <<stdout, exit_code>>
    /\ UNCHANGED <<stdin, consumed, points, cur, result, smoothVars,
                   voxel_map, voxel_coords>>

\* lines 56-61
DbgReadPayload ==
    /\ pc = "dbg_payload"
    /\ LET bytes_to_read == stdin.header.point_count * 3 * 4
           got == ReadLen(stdin, 32, consumed, bytes_to_read)
       IN  /\ consumed' = consumed + got
           /\ IF got < bytes_to_read
              THEN exit_code' = 1 /\ pc' = "dbg_exit" /\ points' = points
              ELSE /\ points' = UnpackPoints(stdin)
                   /\ pc' = "dbg_kernel"
                   /\ exit_code' = exit_code
    /\ UNCHANGED <<stdin, stdout, cur, result, smoothVars, voxelVars>>

\* line 75, and lines 92-100 when the kernel raises
DbgKernel ==
    /\ pc = "dbg_kernel"
    /\ result' \in GenerateVoxelCenters(points, voxel_size, global_bounds)
    /\ IF result'.kind = "raise"
       THEN /\ stdout' = Append(stdout, U32(0))
            /\ exit_code' = 1
            /\ pc' = "dbg_exit"
       ELSE /\ pc' = "dbg_output"
            /\ UNCHANGED <<stdout, exit_code>>
    /\ UNCHANGED <<stdin, consumed, points, cur, smoothVars, voxelVars>>

\* lines 81-90, and lines 92-100 when struct.pack raises after the count
\* was written
DbgOutput ==
    /\ pc = "dbg_output"
    /\ LET voxel_count == Len(result.value) \div 3
       IN  IF PackFails(result.value, stdin.unit)
           THEN /\ stdout' = stdout \o <<U32(voxel_count), U32(0)>>
                /\ exit_code' = 1
           ELSE /\ stdout' = stdout \o <<U32(voxel_count)>>
                       \o (IF voxel_count > 0
                           THEN <<F32s(result.value)>> ELSE <<>>)
                /\ exit_code' = 0
    /\ pc' = "dbg_exit"
    /\ UNCHANGED <<stdin, consumed, points, cur, result, smoothVars, voxelVars>>

----------------------------------------------------------------------------
(* Inputs of the driver specification                                      *)

\* declared point counts: what the payload can hold, MAX_POINTS and one above
\* it, and the least count whose positions take more than MaxBytesToRead bytes
PointCounts ==
    (0 .. MaxPayload)
    \cup {MAX_POINTS, MAX_POINTS + 1, MaxBytesToRead \div 12 + 1}

SmoothDriverCloud == {P3(0, 0, 0), P3(2, 0, 0)}
VoxelDriverCloud == {P3(0, 0, 0), P3(1, 0, 0), <<NaN, Fin(0), Fin(0)>>}

SmoothHeaders ==
    {Header(n, Fin(0), r, k, NoBounds, 0) :
        n \in PointCounts,
        r \in {Fin(0), Fin(1), Fin(5), NaN, PInf},
        k \in {Fin(0), Fin(1), <<3, 2>>, NaN}}

\* bounds a header may carry: those of the kernel inputs, an infinite
\* maximum, and a maximum below the minimum
HeaderBounds ==
    BoundsChoices
    \cup {Bounds(P3(0, 0, 0), <<PInf, Fin(2), Fin(2)>>),
          Bounds(P3(0, 0, 0), P3(-1, 2, 2))}

DownsampleHeaders ==
    {Header(n, s, Fin(0), Fin(0), b, fl) :
        n \in PointCounts, s \in {Fin(0), Fin(1), NaN},
        b \in HeaderBounds, fl \in {0, 1, 2, 4, 7}}

DebugHeaders ==
    {Header(n, s, Fin(0), Fin(0), b, 0) :
        n \in PointCounts, s \in {Fin(0), Fin(1), NaN}, b \in HeaderBounds}

\* bytes after the positions: none, a few, or the attribute arrays declared
ExtraChoices(h) ==
    {0, 4} \cup (IF h.point_count <= MaxPayload
                 THEN {h.point_count * 3 * 4 + h.point_count * 4
                       + h.point_count}
                 ELSE {})

\* streams that end inside the header, and streams with a whole header
\* followed by a body; bytes follow the positions only when the positions
\* declared are all there
Stdins(headerSize, headers, cloud) ==
    {Stdin(8, h, <<>>, 0) : h \in headers}
    \cup UNION {{Stdin(headerSize, h, f, e) :
                    f \in FlatListsUpTo(cloud, MaxPayload),
                    e \in ExtraChoices(h)} :
                h \in headers}

\* streams whose lengths are multiples of 2^F32MaxExp: positions at the
\* origin and at the largest binary32 value
LargeCloud == {P3(0, 0, 0), P3(F32MaxMantissa, 0, 0)}
LargeBounds == Bounds(P3(0, 0, 0), P3(F32MaxMantissa, 0, 0))

LargeSmoothHeaders ==
    {Header(n, Fin(0), Fin(1), Fin(1), NoBounds, 0) : n \in 1 .. MaxPayload}

LargeVoxelHeaders ==
    {Header(n, s, Fin(0), Fin(0), LargeBounds, 0) :
        n \in 1 .. MaxPayload, s \in {Fin(1), Fin(2)}}

LargeStdins(headerSize, headers, cloud) ==
    {InUnit(Stdin(headerSize, h, f, 0), F32MaxExp) :
        h \in headers, f \in FlatListsUpTo(cloud, MaxPayload)}

DriverInit ==
    /\ \/ pc = "sm_header"
          /\ stdin \in Stdins(12, SmoothHeaders, SmoothDriverCloud)
                \cup LargeStdins(12, LargeSmoothHeaders,
                                 {P3(F32MaxMantissa, 0, 0)})
       \/ pc = "ds_header"
          /\ stdin \in Stdins(36, DownsampleHeaders, VoxelDriverCloud)
                \cup LargeStdins(36, LargeVoxelHeaders, LargeCloud)
       \/ pc = "dbg_header"
          /\ stdin \in Stdins(32, DebugHeaders, VoxelDriverCloud)
                \cup LargeStdins(32, LargeVoxelHeaders, LargeCloud)
    /\ stdin.extra = 0 \/ Len(stdin.floats) >= 3 * stdin.header.point_count
    /\ consumed = 0
    /\ stdout = <<>>
    /\ exit_code = -1
    /\ points = <<>>
    /\ cur = 0
    /\ result = NoResult
    /\ SmoothIdle
    /\ VoxelIdle

DriverNext ==
    \/ SmReadHeader \/ SmValidate \/ SmReadPayload \/ SmKernel \/ SmOutput
    \/ DsReadHeader \/ DsValidate \/ DsReadPayload \/ DsKernel \/ DsOutput
    \/ DbgReadHeader \/ DbgValidate \/ DbgReadPayload \/ DbgKernel \/ DbgOutput

SpecDriver == DriverInit /\ [][DriverNext]_vars

----------------------------------------------------------------------------
(* Claims about point_cloud_smooth                                         *)

PointAt(pts, i) == <<PX(pts, i), PY(pts, i), PZ(pts, i)>>
Indices(pts) == 0 .. NumPoints(pts) - 1

\* the points other than i within distance r of point i
NeighborSet(pts, i, r) ==
    {j \in Indices(pts) : j # i /\ FLe(DistanceSquared(pts, i, j), FMul(r, r))}

RECURSIVE SumCoord(_, _, _)
SumCoord(pts, S, k) ==
    IF S = {} THEN Fin(0)
    ELSE LET j == CHOOSE j \in S : TRUE
         IN  FAdd(pts[3 * j + k], SumCoord(pts, S \ {j}, k))

\* mean of point i and each point of S, counted once
MeanWith(pts, i, S) ==
    [k \in 1 .. 3 |->
        FDiv(FAdd(pts[3 * i + k], SumCoord(pts, S, k)), Fin(Cardinality(S) + 1))]

Centroid(pts) ==
    [k \in 1 .. 3 |->
        FDiv(SumCoord(pts, Indices(pts), k), Fin(NumPoints(pts)))]

DiagonalSquared(pts) ==
    LET b == BoundingBox(pts)
        ex == FSub(b.max_x, b.min_x)
        ey == FSub(b.max_y, b.min_y)
        ez == FSub(b.max_z, b.min_z)
    IN  FAdd(FAdd(FMul(ex, ex), FMul(ey, ey)), FMul(ez, ez))

\* every two points are farther apart than r
SpacingExceeds(pts, r) ==
    \A i, j \in Indices(pts) :
        i # j => FLt(FMul(r, r), DistanceSquared(pts, i, j))

SmoothRan ==
    /\ pc = "smooth_done"
    /\ result.kind = "return"
    /\ NumPoints(points) >= 1

\* points already rewritten in the iteration in progress (or just completed)
Processed ==
    IF pc = "smooth_point" THEN cur
    ELSE IF pc = "smooth_loop" /\ iter > 0 THEN NumPoints(points)
    ELSE 0

\* C1: one smoothing iteration writes next[i] = (prev[i] + sum of the prev[j],
\* j # i within distance r of prev[i], each added once) / (count + 1), and
\* next[i] = prev[i] when there is no such j.
C1_IterationWritesMean ==
    \A i \in 0 .. Processed - 1 :
        PointAt(smoothed_points, i) =
            MeanWith(temp_points, i, NeighborSet(temp_points, i, smoothing_radius))

\* C2: with a radius larger than the bounding-box diagonal and one iteration,
\* every output point is the centroid of all input points.
C2_LargeRadiusCentroid ==
    (/\ SmoothRan
     /\ iterations = 1
     /\ FLt(DiagonalSquared(points), FMul(smoothing_radius, smoothing_radius)))
    => \A i \in Indices(points) : PointAt(result.value, i) = Centroid(points)

\* C7: with a radius smaller than the minimum pairwise distance the output
\* equals the input exactly, for every iteration count K >= 1.
C7_SmallRadiusIdentity ==
    (SmoothRan /\ SpacingExceeds(points, smoothing_radius))
    => result.value = points

C7_Witness ==
    /\ SmoothRan
    /\ NumPoints(points) >= 2
    /\ iterations >= 2
    /\ SpacingExceeds(points, smoothing_radius)


----------------------------------------------------------------------------
(* Claims about voxel_downsample and generate_voxel_centers                *)

FAbs(a) == IF a[1] < 0 THEN FNeg(a) ELSE a

FiniteIndices(pts) ==
    {i \in Indices(pts) :
        IsFinite(PX(pts, i)) /\ IsFinite(PY(pts, i)) /\ IsFinite(PZ(pts, i))}

\* (floor((x - min_x) / s), floor((y - min_y) / s), floor((z - min_z) / s))
FloorIndex(pts, i, s, b) ==
    <<Floor(FDiv(FSub(PX(pts, i), b.min_x), s)),
      Floor(FDiv(FSub(PY(pts, i), b.min_y), s)),
      Floor(FDiv(FSub(PZ(pts, i), b.min_z), s))>>

OccupiedVoxels(pts, s, b) == {FloorIndex(pts, i, s, b) : i \in FiniteIndices(pts)}

Members(pts, v, s, b) ==
    {i \in FiniteIndices(pts) : FloorIndex(pts, i, s, b) = v}

\* arithmetic mean of the points with index in S
MeanOf(pts, S) ==
    [k \in 1 .. 3 |-> FDiv(SumCoord(pts, S, k), Fin(Cardinality(S)))]

PointSet(pts) == {PointAt(pts, i) : i \in Indices(pts)}

Occurrences(pts, p) == Cardinality({i \in Indices(pts) : PointAt(pts, i) = p})

IsPermutation(a, b) ==
    /\ Len(a) = Len(b)
    /\ \A p \in PointSet(a) \cup PointSet(b) : Occurrences(a, p) = Occurrences(b, p)

\* every index of every occupied voxel lies in 0 .. top - 1
IndicesWithin(pts, s, b, top) ==
    \A v \in OccupiedVoxels(pts, s, b) : \A k \in 1 .. 3 : 0 <= v[k] /\ v[k] < top

AxisGap(pts, i, j, k) == FAbs(FSub(pts[3 * j + k], pts[3 * i + k]))

\* points i and j are farther apart than s (Euclidean distance)
FartherThan(pts, i, j, s) ==
    \/ \E k \in 1 .. 3 : FLt(s, AxisGap(pts, i, j, k))
    \/ FLt(FMul(s, s), DistanceSquared(pts, i, j))

\* points i and j are at least s apart along some axis
AxisSeparated(pts, i, j, s) == \E k \in 1 .. 3 : FLe(s, AxisGap(pts, i, j, k))

DownRan ==
    /\ pc = "down_done"
    /\ result.kind = "return"
    /\ NumPoints(points) >= 1

DebugRan ==
    /\ pc = "debug_done"
    /\ result.kind = "return"
    /\ NumPoints(points) >= 1

ExpectedCenter(v, s, b) ==
    <<FAdd(FAdd(b.min_x, FDiv(s, Fin(2))), FMul(Fin(v[1]), s)),
      FAdd(FAdd(b.min_y, FDiv(s, Fin(2))), FMul(Fin(v[2]), s)),
      FAdd(FAdd(b.min_z, FDiv(s, Fin(2))), FMul(Fin(v[3]), s))>>

C9_NonFinitePointSkipped ==
    (/\ pc \in {"down_done", "debug_done"}
     /\ \E i \in Indices(points) : CoordinateInvalid(points, i)
     /\ ~VoxelSizeInvalid(voxel_size)
     /\ global_bounds = Bounds(P3(0, 0, 0), P3(2, 2, 2))
     /\ IndicesWithin(points, voxel_size, global_bounds, Limb))
    => /\ result.kind = "return"
       /\ NumPoints(result.value) =
              Cardinality(OccupiedVoxels(points, voxel_size, global_bounds))

----------------------------------------------------------------------------
(* Claims about the binary drivers                                         *)

\* the header size of the driver that runs
HeaderBytes ==
    CASE pc \in {"sm_header", "sm_validate", "sm_payload", "sm_kernel",
                 "sm_output", "sm_exit"} -> 12
      [] pc \in {"ds_header", "ds_validate", "ds_payload", "ds_kernel",
                 "ds_output", "ds_exit"} -> 36
      [] OTHER -> 32

Exited == pc \in {"sm_exit", "ds_exit", "dbg_exit"}

\* standard input ends inside the header, or inside the payload the header
\* declares (positions, then the arrays the flags announce)
InputTruncated ==
    \/ stdin.header_len < HeaderBytes
    \/ ~ReadAll(stdin, HeaderBytes, HeaderBytes,
                PayloadReads(stdin.header.point_count, stdin.header.flags),
                1).complete

\* a smooth invocation with N >= 1, radius > 0, iterations >= 1 and all of
\* its N points in standard input
SmoothValidated ==
    /\ stdin.header_len = 12
    /\ stdin.header.point_count >= 1
    /\ FLt(Fin(0), stdin.header.smoothing_radius)
    /\ FLe(Fin(1), stdin.header.iterations)
    /\ Len(stdin.floats) >= 3 * stdin.header.point_count

\* C8: a smooth invocation that passes validation (N >= 1, radius > 0,
\* iterations >= 1, complete payload) ends having written the count N and
\* then exactly 3 * N floats, point i of which is the kernel's image of
\* input point i.
C8_SmoothOutputCount ==
    (pc = "sm_exit" /\ SmoothValidated) =>
        /\ Len(stdout) = 2
        /\ stdout[1] = U32(stdin.header.point_count)
        /\ stdout[2].type = "f32"
        /\ stdout[2].count = 3 * stdin.header.point_count
        /\ stdout[2].values = result.value

\* C10: a driver whose standard input ends before the whole header or the
\* whole declared payload exits with a non-zero status having written
\* nothing to standard output.
C10_TruncatedInputSilentFailure ==
    (Exited /\ InputTruncated) => (exit_code # 0 /\ stdout = <<>>)

\* the driver that ran
SmoothExited == pc = "sm_exit"
VoxelExited == pc \in {"ds_exit", "dbg_exit"}

HeaderComplete == stdin.header_len >= HeaderBytes

\* the header fields the claims name as rejected by validation
RejectedFields ==
    \/ stdin.header.point_count = 0
    \/ VoxelExited /\ FLe(stdin.header.voxel_size, Fin(0))
    \/ SmoothExited /\ FLe(stdin.header.smoothing_radius, Fin(0))
    \/ /\ SmoothExited
       /\ IsFinite(stdin.header.iterations)
       /\ PyInt(stdin.header.iterations) <= 0

\* C11: a complete header with N = 0, or voxel_size <= 0 (downsample, debug),
\* or smoothing_radius <= 0 or integer-cast iterations <= 0 (smooth), ends
\* with standard output holding exactly u32 0 and exit status 0.
C11_RejectionWritesZero ==
    (Exited /\ HeaderComplete /\ RejectedFields)
    => (stdout = <<U32(0)>> /\ exit_code = 0)

\* an invocation that is well formed apart from the field a claim is about:
\* whole header and payload, N within the cap, a finite iterations field
WellFramed ==
    /\ HeaderComplete
    /\ ~InputTruncated
    /\ stdin.header.point_count <= MAX_POINTS
    /\ IsFinite(stdin.header.iterations)

\* C12: a voxel_size (downsample, debug) or smoothing_radius (smooth) that is
\* NaN or infinite is rejected like a non-positive one: standard output is
\* exactly u32 0 and the exit status is 0.
C12_NonFiniteSizeRejected ==
    (/\ Exited
     /\ WellFramed
     /\ \/ VoxelExited /\ ~IsFinite(stdin.header.voxel_size)
        \/ SmoothExited /\ ~IsFinite(stdin.header.smoothing_radius))
    => (stdout = <<U32(0)>> /\ exit_code = 0)

\* C13: in each of the three drivers a header declaring N > 100,000,000 ends
\* the invocation with a non-zero exit status before any payload byte is
\* read, whatever the other header fields are.
C13_PointCapRejected ==
    (Exited /\ HeaderComplete /\ stdin.header.point_count > MAX_POINTS)
    => (exit_code # 0 /\ consumed = HeaderBytes)

\* payload bytes the header declares for each point: position, and for
\* downsample the flagged colors, intensity and classification
BytesPerPoint ==
    12 + (IF UseColors(stdin.header.flags) THEN 12 ELSE 0)
       + (IF UseIntensity(stdin.header.flags) THEN 4 ELSE 0)
       + (IF UseClassification(stdin.header.flags) THEN 1 ELSE 0)

\* point_count * BytesPerPoint > MaxBytesToRead, without forming the product
DeclaredOverCap == stdin.header.point_count > MaxBytesToRead \div BytesPerPoint

\* C14: a header that declares more than 2,000,000,000 payload bytes
\* (positions plus flagged attribute arrays) is rejected with a non-zero exit:
\* the invocation is not accepted, so no payload byte is read for it.
C14_PayloadCapRejected ==
    (/\ Exited
     /\ HeaderComplete
     /\ ~RejectedFields
     /\ IsFinite(stdin.header.iterations)
     /\ DeclaredOverCap)
    => (exit_code # 0 /\ consumed = HeaderBytes)

\* the whole payload the header declares has been read from standard input
PayloadRead ==
    LET r == ReadAll(stdin, HeaderBytes, HeaderBytes,
                     PayloadReads(stdin.header.point_count,
                                  stdin.header.flags), 1)
    IN  r.complete /\ consumed = r.consumed

\* C15: nothing is written to standard output until the whole payload the
\* header declares has been read, on the validation-rejection path too.
C15_NoOutputBeforePayloadRead == stdout # <<>> => PayloadRead

BoundsValues(b) == {b.min_x, b.min_y, b.min_z, b.max_x, b.max_y, b.max_z}

\* some bound is NaN or infinite, or a maximum lies below its minimum
BoundsMalformed(b) ==
    \/ \E v \in BoundsValues(b) : ~IsFinite(v)
    \/ FLt(b.max_x, b.min_x) \/ FLt(b.max_y, b.min_y) \/ FLt(b.max_z, b.min_z)

\* standard output holds a count above zero followed by that many positions
NormalNonEmptyResult ==
    /\ Len(stdout) >= 2
    /\ stdout[1].type = "u32"
    /\ stdout[1].values[1] > 0
    /\ stdout[2].count = 3 * stdout[1].values[1]

\* C16: a downsample or debug invocation whose bounds are not all finite, or
\* have max < min on some axis, never ends with exit status 0 and a normal
\* non-empty result.
C16_MalformedBoundsRejected ==
    (VoxelExited /\ BoundsMalformed(stdin.header.global_bounds))
    => ~(exit_code = 0 /\ NormalNonEmptyResult)

\* the kernel was called and raised
KernelRaised == result.kind = "raise"

\* C17: when the kernel raises after validation passed and the payload was
\* read, the driver writes exactly u32 0 and exits with a non-zero status, in
\* all three drivers.
C17_KernelErrorWritesZero ==
    (Exited /\ KernelRaised) => (stdout = <<U32(0)>> /\ exit_code # 0)

C17_Witness ==
    /\ pc = "ds_exit"
    /\ KernelRaised
    /\ PayloadRead
    /\ stdin.header.point_count > 0
    /\ stdout = <<U32(0)>>

\* bytes the header declares for the payload
DeclaredBytes == stdin.header.point_count * BytesPerPoint

\* the bytes after the header are fewer or more than the header declares
PayloadMismatch ==
    \/ DeclaredOverCap
    \/ BodyBytes(stdin) # DeclaredBytes

\* standard output holds a count followed by at least one array
NormalResult == Len(stdout) >= 2

\* C18: whenever the payload on stdin is not exactly as long as the header
\* implies, surplus bytes included, the driver exits with a non-zero status
\* and writes no normal result.
C18_PayloadLengthMismatchFails ==
    (Exited /\ HeaderComplete /\ ~RejectedFields
        /\ IsFinite(stdin.header.iterations) /\ PayloadMismatch)
    => (exit_code # 0 /\ ~NormalResult)

RECURSIVE SumCounts(_, _)
SumCounts(m, n) == IF n = 0 THEN 0 ELSE m[n].count + SumCounts(m, n - 1)

AllPointsFinite(pts) == FiniteIndices(pts) = Indices(pts)

BoundsFinite(b) == \A v \in BoundsValues(b) : IsFinite(v)

\* point i lies below the bounds minimum, or above the bounds maximum, on
\* some axis
BelowBounds(pts, i, b) ==
    FLt(PX(pts, i), b.min_x) \/ FLt(PY(pts, i), b.min_y) \/ FLt(PZ(pts, i), b.min_z)

AboveBounds(pts, i, b) ==
    FLt(b.max_x, PX(pts, i)) \/ FLt(b.max_y, PY(pts, i)) \/ FLt(b.max_z, PZ(pts, i))

\* voxel_downsample was called with a valid voxel size, finite bounds and
\* at least one point, all points finite
DownCalledOnFinite ==
    /\ pc \in {"down_loop", "down_done"}
    /\ NumPoints(points) >= 1
    /\ AllPointsFinite(points)
    /\ ~VoxelSizeInvalid(voxel_size)
    /\ BoundsFinite(global_bounds)

\* C19: voxel_downsample accepts finite points outside the bounds on either
\* side without raising, and each point is accumulated into exactly one voxel:
\* during the loop the accumulator counts sum to the number of points taken so
\* far, and after the loop to N.
C19_OutOfBoundsAccumulated ==
    DownCalledOnFinite =>
        /\ result.kind # "raise"
        /\ pc = "down_loop" => SumCounts(voxel_map, Len(voxel_map)) = cur
        /\ pc = "down_done" =>
               /\ result.kind = "return"
               /\ SumCounts(voxel_map, Len(voxel_map)) = NumPoints(points)

C19_Witness ==
    /\ DownCalledOnFinite
    /\ pc = "down_done"
    /\ \E i \in Indices(points) : BelowBounds(points, i, global_bounds)
    /\ \E i \in Indices(points) : AboveBounds(points, i, global_bounds)
    /\ \E i \in Indices(points) :
           \E k \in 1 .. 3 :
               FloorIndex(points, i, voxel_size, global_bounds)[k] >= Limb
    /\ SumCounts(voxel_map, Len(voxel_map)) = NumPoints(points)

\* C20: the bounding box, grid minimum and grid dimensions used in an
\* iteration are those of that iteration's prev buffer (temp_points), i.e.
\* they are recomputed from the current positions at the start of every
\* iteration.
C20_BoundingBoxPerIteration ==
    pc = "smooth_point" => Ctx = SmoothSetup(temp_points, smoothing_radius)

----------------------------------------------------------------------------
(* Claims about the grid of point_cloud_smooth                             *)

\* floor((v - min) / cell_size)
FloorCoord(v, minv, s) == Floor(FDiv(FSub(v, minv), s))

\* coordinate k of point i shifted by o[k] cells, as lines 108-110 compute it
Shifted(temp, i, o, k, c) == FAdd(temp[3 * i + k], FMul(Fin(o[k]), c.cell_size))

MinOf(c) == <<c.min_x, c.min_y, c.min_z>>

\* the smoothing loop is at point cur of an iteration
InIteration == pc = "smooth_point" /\ cur < NumPoints(points)

\* C21: every grid cell coordinate, those of the shifted neighbour
\* coordinates below the grid minimum included, is
\* floor((coord - min) / cell_size), not a truncation toward zero.
C21_CellCoordIsFloor ==
    InIteration =>
        \A n \in 1 .. 27 : \A k \in 1 .. 3 :
            CellCoord(Shifted(temp_points, cur, Offsets[n], k, Ctx),
                      MinOf(Ctx)[k], Ctx.inv_cell_size)
            = FloorCoord(Shifted(temp_points, cur, Offsets[n], k, Ctx),
                         MinOf(Ctx)[k], Ctx.cell_size)

MinOf64(c) == <<c.min_x, c.min_y, c.min_z>>

\* cell of point i as lines 82-84 compute it
OwnCell(temp, i, c) ==
    [k \in 1 .. 3 |-> CellCoord64(temp[3 * i + k], MinOf64(c)[k], c.cell_size)]

DimsOf(c) == <<c.grid_width, c.grid_height, c.grid_depth>>

\* line 85 applied to a cell coordinate triple
FlatIndex(v, c) == v[1] + v[2] * c.grid_width + v[3] * c.grid_width * c.grid_height

\* the grid has at least 3 cells per axis and point i's cell touches no face
InteriorCell(temp, i, c) ==
    \A k \in 1 .. 3 :
        /\ DimsOf(c)[k] >= 3
        /\ 1 <= OwnCell(temp, i, c)[k]
        /\ OwnCell(temp, i, c)[k] <= DimsOf(c)[k] - 2

\* flat indices of the 27 lookups of point i
LookupIndices(temp, i, c) ==
    {NeighborIndex64(temp, i, Offsets[n], c) : n \in 1 .. 27}

\* flat indices of the cells at offsets {-1,0,+1}^3 from point i's own cell
AdjacentIndices(temp, i, c) ==
    {FlatIndex([k \in 1 .. 3 |-> OwnCell(temp, i, c)[k] + Offsets[n][k]], c) :
        n \in 1 .. 27}

\* the per-point loop is at point cur
AtPoint == pc = "grid_point" /\ cur < NumPoints(points)

\* C22: for a point whose cell is interior, the 27 flat indices obtained by
\* shifting the coordinate by dx*r, dy*r, dz*r are exactly the 27 distinct
\* cells at offsets {-1,0,+1}^3 from the point's own cell.
C22_InteriorLookupsAreAdjacentCells ==
    (AtPoint /\ InteriorCell(temp_points, cur, GridCtx)) =>
        /\ LookupIndices(temp_points, cur, GridCtx)
           = AdjacentIndices(temp_points, cur, GridCtx)
        /\ Cardinality(LookupIndices(temp_points, cur, GridCtx)) = 27

\* the neighbour search of point cur - 1 has just finished
PointGathered == pc = "grid_point" /\ cur >= 1 /\ result.kind = "gathered"

\* C26: no neighbour is missed: for every pair i # j whose squared distance
\* in prev is at most r*r, point j is visited at least once while point i is
\* processed.
C26_NoNeighbourMissed ==
    PointGathered =>
        \A j \in Indices(points) \ {cur - 1} :
            WithinRadius(temp_points, cur - 1, j, GridCtx)
            => \E n \in 1 .. Len(result.value) : result.value[n] = j

\* the value the per-point loop gives point i when every read comes from prev
FromPrev(prev, g, i, c) == PointAt(ProcessPoint(prev, g, prev, i, c), i)

\* in the iteration in progress the grid is that of prev (temp_points), and
\* the points not yet processed still hold their prev positions
ReadsComeFromPrev ==
    pc = "smooth_point" =>
        /\ grid = PopulateGrid(temp_points, Ctx)
        /\ \A i \in cur .. NumPoints(points) - 1 :
               PointAt(smoothed_points, i) = PointAt(temp_points, i)

\* a pass of the per-point loop leaves prev and the grid as they are, gives
\* point cur the value computed from prev alone and leaves the other points
PrevKept ==
    pc = "smooth_point" =>
        /\ temp_points' = temp_points
        /\ grid' = grid
        /\ \A i \in Indices(points) :
               PointAt(smoothed_points', i) =
                   IF i = cur THEN FromPrev(temp_points, grid, cur, Ctx)
                   ELSE PointAt(smoothed_points, i)

\* C23: within one iteration every position read (grid population, the
\* point's own position, neighbour positions) comes from prev, which is not
\* modified during the iteration; the new value of point i never depends on
\* the updated value of a point processed earlier in the same iteration.
C23_IterationReadsPrev == []ReadsComeFromPrev /\ [][PrevKept]_vars

\* a point processed earlier has moved and is a neighbour of the point that
\* is processed next
C23_Witness ==
    /\ pc = "smooth_point"
    /\ cur < NumPoints(points)
    /\ \E i \in 0 .. cur - 1 :
           /\ PointAt(smoothed_points, i) # PointAt(temp_points, i)
           /\ i \in NeighborSet(temp_points, cur, smoothing_radius)
           /\ ~WithinRadius(smoothed_points, cur, i, Ctx)

\* C24: for the same points, voxel size and bounds the debug kernel and the
\* downsample kernel identify the same occupied voxels: the number of centers
\* generate_voxel_centers returns equals the voxel_count voxel_downsample
\* returns.
C24_DebugCountEqualsDownsampleCount ==
    DownRan =>
        \A g \in GenerateVoxelCenters(points, voxel_size, global_bounds) :
            g.kind = "return" => Len(g.value) \div 3 = result.count

----------------------------------------------------------------------------
(* Claims about the output of the binary drivers                           *)

\* the u32 count headers written to standard output so far
CountHeaders == {i \in 1 .. Len(stdout) : stdout[i].type = "u32"}

\* C25: a run of a binary driver writes at most one u32 count header to
\* standard output, and a run that exits non-zero leaves standard output
\* empty or holding exactly the four bytes of u32 0, also when the failure
\* happens while the result is encoded after its count was computed.
C25_AtMostOneCountHeader ==
    /\ Cardinality(CountHeaders) <= 1
    /\ (Exited /\ exit_code # 0) => stdout \in {<<>>, <<U32(0)>>}

----------------------------------------------------------------------------
(* Claims about the smoothed positions and the grid                        *)

\* point i of buf lies inside the bounding box of the kernel's input
InsideBox(buf, i, c) ==
    /\ DblLe(c.min_x, PX(buf, i)) /\ DblLe(PX(buf, i), c.max_x)
    /\ DblLe(c.min_y, PY(buf, i)) /\ DblLe(PY(buf, i), c.max_y)
    /\ DblLe(c.min_z, PZ(buf, i)) /\ DblLe(PZ(buf, i), c.max_z)

\* the places <<cell, position>> of the grid that hold point index i
PlacesOf(i) ==
    {<<k, n>> \in (DOMAIN grid) \X (1 .. NumPoints(points)) :
        n <= Len(grid[k]) /\ grid[k][n] = i}

InKernel == pc \in {"dbl_iter", "dbl_populate", "dbl_point", "dbl_done"}

\* every point of the buffer lies inside the bounding box of the input
PointsStayInBox ==
    (InKernel /\ points # <<>>) =>
        \A i \in Indices(points) : InsideBox(smoothed_points, i, DblCtx)

\* once the grid is populated every point index is in exactly one cell
EveryPointInOneCell ==
    pc = "dbl_point" => \A i \in Indices(points) : Cardinality(PlacesOf(i)) = 1

\* C27: after any number of smoothing iterations every point lies inside
\* the bounding box of the original input, and so in every iteration's
\* grid population every point index is appended to exactly one cell: the
\* guard 0 <= grid_index < grid_size drops no point.
C27_PointsStayInBoxAndGrid == PointsStayInBox /\ EveryPointInOneCell

====
